---------------------------- MODULE Spec2Model ----------------------------
(***************************************************************************)
(* Transactional inventory and sales ledger of pharmacy.py.                *)
(*                                                                         *)
(* The durable store is the record db: the products table, its             *)
(* AUTOINCREMENT high-water mark, the sales and stock_adjustments tables   *)
(* in rowid order, and the ids of the users table.  Money is counted in    *)
(* thousandths of a currency unit, so two decimals are multiples of 10.    *)
(* Text is a sequence of tokens, " " being a whitespace token, so that     *)
(* str.strip() is a real conversion.                                       *)
(*                                                                         *)
(* Spec      : one caller; every handler runs to completion (Call, then    *)
(*             the handler as one step).                                   *)
(* SpecPage  : the sales page: the invoice field is filled by              *)
(*             generate_invoice and submitted to record_sale.              *)
(* SpecUsers : one caller, two users who sell and adjust stock and are     *)
(*             deleted.                                                    *)
(* SpecConc  : two connections to the same database file, each handler     *)
(*             split at its SQL statements, with SQLite's single-writer    *)
(*             lock taken by the first write statement of a transaction.   *)
(***************************************************************************)
EXTENDS Integers, Sequences, FiniteSets, TLC

VARIABLES
    db,      \* the committed contents of pharmacy.db
    prev,    \* the store the call in req was issued on
    pc,      \* "idle", "called" (handler running), "returned"
    req,     \* the call: handler name and arguments
    res,     \* its outcome: error message or Ok, failing line, return value
    hist,    \* the sale or reversal completed just before the call in req, kept
             \* while the caller goes on to reverse that same invoice
    conn,    \* SpecConc: per connection, the handler position and its locals
    writer,  \* SpecConc: the connection holding SQLite's write lock, or 0
    wdb      \* SpecConc: the uncommitted store of the writer

vars == <<db, prev, pc, req, res, hist, conn, writer, wdb>>

---------------------------------------------------------------------------
(* Bounds of the model *)

MaxProducts == 2
MaxQty == 2
MaxSales == 2
MaxAdj == 2
MaxRows == 3
MaxLines == 2

(* Sample rows of init_db, scaled down: product id -> starting quantity *)
SeedQty == <<2>>

ProductIds == 1..MaxProducts

NULL == 0

(* the signed-in user: st.session_state["user"]["id"] *)
Actors == {1}

(* ids of the users table a caller may name *)
UserIds == {1, 2}

(* date.today().strftime("%y%m%d") *)
Today == "251104"

(* invoice numbers a caller submits: one of the day before, two of today *)
Invoices == {"INV-251103-001", "INV-251104-001", "INV-251104-002"}

---------------------------------------------------------------------------
(* Arithmetic and text helpers *)

Abs(n) == IF n < 0 THEN -n ELSE n

(* round(x, 2) on thousandths: nearest multiple of 10, ties to even *)
Round2(m) ==
    LET a == Abs(m)
        q == a \div 10
        r == a % 10
        up == r > 5 \/ (r = 5 /\ q % 2 = 1)
        mag == 10 * (IF up THEN q + 1 ELSE q)
    IN IF m < 0 THEN -mag ELSE mag

RECURSIVE LStrip(_)
LStrip(s) == IF s # <<>> /\ Head(s) = " " THEN LStrip(Tail(s)) ELSE s

RECURSIVE RStrip(_)
RStrip(s) ==
    IF s # <<>> /\ s[Len(s)] = " " THEN RStrip(SubSeq(s, 1, Len(s) - 1)) ELSE s

(* str.strip() *)
Strip(s) == RStrip(LStrip(s))

(* f"{count:03d}" *)
Format03(n) ==
    IF n < 10 THEN "00" \o ToString(n)
    ELSE IF n < 100 THEN "0" \o ToString(n)
    ELSE ToString(n)

(* s LIKE 'prefix%', the prefix holding no wildcard *)
LikePrefix(s, prefix) ==
    Len(s) >= Len(prefix) /\ SubSeq(s, 1, Len(prefix)) = prefix

---------------------------------------------------------------------------
(* The store *)

(* get_product / SELECT ... FROM products WHERE id=? returns a row *)
ProductExists(d, product_id) == product_id \in DOMAIN d.products

(* row["quantity"] of that row *)
Quantity(d, product_id) == d.products[product_id].quantity

(* UPDATE products SET quantity = ? WHERE id=? : no row, no effect *)
SetQuantity(d, product_id, q) ==
    IF product_id \in DOMAIN d.products
    THEN [d EXCEPT !.products[product_id].quantity = q]
    ELSE d

(* INSERT INTO stock_adjustments (product_id, adjustment_qty, reason, adjusted_by) *)
InsertAdjustment(d, product_id, adjustment_qty, reason, adjusted_by) ==
    [d EXCEPT !.stock_adjustments = Append(@,
        [product_id |-> product_id, adjustment_qty |-> adjustment_qty,
         reason |-> reason, adjusted_by |-> adjusted_by])]

(* INSERT INTO sales (invoice, product_id, qty, unit_price, unit_cost,
   discount, total, sold_by, sold_at) *)
InsertSale(d, invoice, product_id, qty, unit_price, unit_cost, discount, total, sold_by) ==
    [d EXCEPT !.sales = Append(@,
        [invoice |-> invoice, product_id |-> product_id, qty |-> qty,
         unit_price |-> unit_price, unit_cost |-> unit_cost,
         discount |-> discount, total |-> total, sold_by |-> sold_by])]

(* the rows init_db inserts into an empty products table: no adjustment rows *)
SeedProducts ==
    [p \in 1..Len(SeedQty) |->
        [name |-> <<"Med">>, quantity |-> SeedQty[p], price |-> 10, cost |-> 5]]

(* the default admin init_db inserts into an empty users table *)
SeedUsers == {1}

init_db ==
    [products |-> SeedProducts,
     products_seq |-> Len(SeedQty),
     sales |-> <<>>,
     stock_adjustments |-> <<>>,
     users |-> SeedUsers]

Ok == "ok"

Result(d, err) == [db |-> d, err |-> err, line |-> 0, ret |-> 0]

---------------------------------------------------------------------------
(* The handlers, each from the committed store d to its result.  A raise    *)
(* before commit leaves d: "with conn" rolls back, and the connection of a  *)
(* run is closed at its end.                                                *)

ErrNameEmpty == "Product name cannot be empty"
ErrNegative == "Price, cost, quantity, and reorder level must be non-negative"
ErrProductNotFound == "Product not found"
ErrHasSales == "Cannot delete product with associated sales history."
ErrAdjZero == "Adjustment quantity cannot be zero"
ErrReason == "Reason for adjustment is required"
ErrBelowZero == "Cannot adjust stock below zero"
ErrEmptySale == "Cannot record an empty sale."
ErrQtyPositive == "Quantity must be positive"
ErrTotalNegative == "Total sale amount cannot be negative"
ErrUnits == "Only avail units available"
ErrNoSales == "No sales found for invoice"
ErrLocked == "database is locked"
ErrUserNotFound == "User ID not found."
ErrDeletionFailed == "Sale deletion failed for invoice"

(* UPDATE ... SET <actor column> = NULL WHERE <actor column> = user_id *)
Anonymize(rows, actor, user_id) ==
    [i \in DOMAIN rows |->
        IF rows[i][actor] = user_id THEN [rows[i] EXCEPT ![actor] = NULL] ELSE rows[i]]

(* mutation: the rows of the user are deleted with the user *)
delete_user_DropsRows(d, user_id) ==
    IF user_id \notin d.users THEN Result(d, ErrUserNotFound)
    ELSE Result([d EXCEPT
            !.sales = SelectSeq(@, LAMBDA r : r.sold_by # user_id),
            !.stock_adjustments = SelectSeq(@, LAMBDA r : r.adjusted_by # user_id),
            !.users = @ \ {user_id}], Ok)

(* mutation: the actor of every row is set to NULL *)
delete_user_NullsAll(d, user_id) ==
    IF user_id \notin d.users THEN Result(d, ErrUserNotFound)
    ELSE Result([d EXCEPT
            !.sales = [i \in DOMAIN @ |-> [@[i] EXCEPT !.sold_by = NULL]],
            !.stock_adjustments = [i \in DOMAIN @ |-> [@[i] EXCEPT !.adjusted_by = NULL]],
            !.users = @ \ {user_id}], Ok)

(* the raise of line 321 comes after the UPDATEs and before the commit:    *)
(* they are rolled back when the connection of the run is closed           *)
delete_user(d, user_id) ==
    IF user_id \notin d.users THEN Result(d, ErrUserNotFound)
    ELSE Result([d EXCEPT
            !.sales = Anonymize(@, "sold_by", user_id),
            !.stock_adjustments = Anonymize(@, "adjusted_by", user_id),
            !.users = @ \ {user_id}], Ok)

(* mutation: the initial adjustment row is written for a quantity of 0 too *)
add_product_LogsZero(d, name, quantity, price, cost) ==
    IF Strip(name) = <<>> THEN Result(d, ErrNameEmpty)
    ELSE IF price < 0 \/ cost < 0 \/ quantity < 0 THEN Result(d, ErrNegative)
    ELSE
        LET product_id == d.products_seq + 1
            row == [name |-> Strip(name), quantity |-> quantity,
                    price |-> price, cost |-> cost]
            d1 == [d EXCEPT !.products = [p \in DOMAIN @ \cup {product_id} |->
                                            IF p = product_id THEN row ELSE @[p]],
                            !.products_seq = product_id]
            d2 == InsertAdjustment(d1, product_id, quantity,
                                   <<"Initial Stock Entry">>, NULL)
        IN [Result(d2, Ok) EXCEPT !.ret = product_id]

add_product(d, name, quantity, price, cost) ==
    IF Strip(name) = <<>> THEN Result(d, ErrNameEmpty)
    ELSE IF price < 0 \/ cost < 0 \/ quantity < 0 THEN Result(d, ErrNegative)
    ELSE
        LET product_id == d.products_seq + 1
            row == [name |-> Strip(name), quantity |-> quantity,
                    price |-> price, cost |-> cost]
            d1 == [d EXCEPT !.products = [p \in DOMAIN @ \cup {product_id} |->
                                            IF p = product_id THEN row ELSE @[p]],
                            !.products_seq = product_id]
            d2 == IF quantity > 0
                  THEN InsertAdjustment(d1, product_id, quantity,
                                        <<"Initial Stock Entry">>, NULL)
                  ELSE d1
        IN [Result(d2, Ok) EXCEPT !.ret = product_id]

ManualEditReason(new_quantity) ==
    <<"Manual Edit/Correction (New Qty: ", ToString(new_quantity), ")">>

(* mutation: the edit writes the quantity and logs nothing *)
update_product_Unlogged(d, product_id, name, price, cost, new_quantity, adjusted_by) ==
    IF Strip(name) = <<>> THEN Result(d, ErrNameEmpty)
    ELSE IF price < 0 \/ cost < 0 \/ new_quantity < 0 THEN Result(d, ErrNegative)
    ELSE IF ~ProductExists(d, product_id) THEN Result(d, ErrProductNotFound)
    ELSE Result([d EXCEPT !.products[product_id] =
                        [name |-> Strip(name), quantity |-> new_quantity,
                         price |-> price, cost |-> cost]], Ok)

(* mutation: the reason names the quantity before the edit *)
update_product_StaleReason(d, product_id, name, price, cost, new_quantity, adjusted_by) ==
    IF Strip(name) = <<>> THEN Result(d, ErrNameEmpty)
    ELSE IF price < 0 \/ cost < 0 \/ new_quantity < 0 THEN Result(d, ErrNegative)
    ELSE IF ~ProductExists(d, product_id) THEN Result(d, ErrProductNotFound)
    ELSE
        LET current_quantity == Quantity(d, product_id)
            adjustment_qty == new_quantity - current_quantity
            d1 == [d EXCEPT !.products[product_id] =
                        [name |-> Strip(name), quantity |-> new_quantity,
                         price |-> price, cost |-> cost]]
            d2 == IF adjustment_qty # 0
                  THEN InsertAdjustment(d1, product_id, adjustment_qty,
                                        ManualEditReason(current_quantity), adjusted_by)
                  ELSE d1
        IN Result(d2, Ok)

(* mutation: the edit carries the new price and cost into the sale rows of *)
(* the product                                                             *)
update_product_RepricesSales(d, product_id, name, price, cost, new_quantity, adjusted_by) ==
    IF Strip(name) = <<>> THEN Result(d, ErrNameEmpty)
    ELSE IF price < 0 \/ cost < 0 \/ new_quantity < 0 THEN Result(d, ErrNegative)
    ELSE IF ~ProductExists(d, product_id) THEN Result(d, ErrProductNotFound)
    ELSE
        LET current_quantity == Quantity(d, product_id)
            adjustment_qty == new_quantity - current_quantity
            d1 == [d EXCEPT !.products[product_id] =
                        [name |-> Strip(name), quantity |-> new_quantity,
                         price |-> price, cost |-> cost],
                            !.sales = [i \in DOMAIN @ |->
                                IF @[i].product_id = product_id
                                THEN [@[i] EXCEPT !.unit_price = price, !.unit_cost = cost]
                                ELSE @[i]]]
            d2 == IF adjustment_qty # 0
                  THEN InsertAdjustment(d1, product_id, adjustment_qty,
                                        ManualEditReason(new_quantity), adjusted_by)
                  ELSE d1
        IN Result(d2, Ok)

update_product(d, product_id, name, price, cost, new_quantity, adjusted_by) ==
    IF Strip(name) = <<>> THEN Result(d, ErrNameEmpty)
    ELSE IF price < 0 \/ cost < 0 \/ new_quantity < 0 THEN Result(d, ErrNegative)
    ELSE IF ~ProductExists(d, product_id) THEN Result(d, ErrProductNotFound)
    ELSE
        LET current_quantity == Quantity(d, product_id)
            adjustment_qty == new_quantity - current_quantity
            d1 == [d EXCEPT !.products[product_id] =
                        [name |-> Strip(name), quantity |-> new_quantity,
                         price |-> price, cost |-> cost]]
            d2 == IF adjustment_qty # 0
                  THEN InsertAdjustment(d1, product_id, adjustment_qty,
                                        ManualEditReason(new_quantity), adjusted_by)
                  ELSE d1
        IN Result(d2, Ok)

(* mutation: the adjustment rows of the product are left behind *)
delete_product_NoCascade(d, product_id) ==
    LET cnt == Len(SelectSeq(d.sales, LAMBDA r : r.product_id = product_id))
    IN IF cnt > 0 THEN Result(d, ErrHasSales)
       ELSE IF ~ProductExists(d, product_id) THEN Result(d, ErrProductNotFound)
       ELSE Result([d EXCEPT
                !.products = [p \in DOMAIN @ \ {product_id} |-> @[p]]], Ok)

delete_product(d, product_id) ==
    LET cnt == Len(SelectSeq(d.sales, LAMBDA r : r.product_id = product_id))
    IN IF cnt > 0 THEN Result(d, ErrHasSales)
       ELSE IF ~ProductExists(d, product_id) THEN Result(d, ErrProductNotFound)
       ELSE Result([d EXCEPT
                !.stock_adjustments = SelectSeq(@, LAMBDA r : r.product_id # product_id),
                !.products = [p \in DOMAIN @ \ {product_id} |-> @[p]]], Ok)

(* mutation: the zero boundary is refused (new_qty <= 0) *)
adjust_stock_OffByOne(d, product_id, adj_qty, reason, adjusted_by) ==
    IF adj_qty = 0 THEN Result(d, ErrAdjZero)
    ELSE IF Strip(reason) = <<>> THEN Result(d, ErrReason)
    ELSE IF ~ProductExists(d, product_id) THEN Result(d, ErrProductNotFound)
    ELSE
        LET current_qty == Quantity(d, product_id)
            new_qty == current_qty + adj_qty
        IN IF new_qty <= 0 THEN Result(d, ErrBelowZero)
           ELSE Result(InsertAdjustment(SetQuantity(d, product_id, new_qty),
                                        product_id, adj_qty, Strip(reason), adjusted_by), Ok)

(* mutation: the ledger row records the new quantity instead of the delta *)
adjust_stock_LogsNewQty(d, product_id, adj_qty, reason, adjusted_by) ==
    IF adj_qty = 0 THEN Result(d, ErrAdjZero)
    ELSE IF Strip(reason) = <<>> THEN Result(d, ErrReason)
    ELSE IF ~ProductExists(d, product_id) THEN Result(d, ErrProductNotFound)
    ELSE
        LET current_qty == Quantity(d, product_id)
            new_qty == current_qty + adj_qty
        IN IF new_qty < 0 THEN Result(d, ErrBelowZero)
           ELSE Result(InsertAdjustment(SetQuantity(d, product_id, new_qty),
                                        product_id, new_qty, Strip(reason), adjusted_by), Ok)

(* mutation: the reason is tested without strip() *)
adjust_stock_NoStrip(d, product_id, adj_qty, reason, adjusted_by) ==
    IF adj_qty = 0 THEN Result(d, ErrAdjZero)
    ELSE IF reason = <<>> THEN Result(d, ErrReason)
    ELSE IF ~ProductExists(d, product_id) THEN Result(d, ErrProductNotFound)
    ELSE
        LET current_qty == Quantity(d, product_id)
            new_qty == current_qty + adj_qty
        IN IF new_qty < 0 THEN Result(d, ErrBelowZero)
           ELSE Result(InsertAdjustment(SetQuantity(d, product_id, new_qty),
                                        product_id, adj_qty, Strip(reason), adjusted_by), Ok)

adjust_stock(d, product_id, adj_qty, reason, adjusted_by) ==
    IF adj_qty = 0 THEN Result(d, ErrAdjZero)
    ELSE IF Strip(reason) = <<>> THEN Result(d, ErrReason)
    ELSE IF ~ProductExists(d, product_id) THEN Result(d, ErrProductNotFound)
    ELSE
        LET current_qty == Quantity(d, product_id)
            new_qty == current_qty + adj_qty
        IN IF new_qty < 0 THEN Result(d, ErrBelowZero)
           ELSE Result(InsertAdjustment(SetQuantity(d, product_id, new_qty),
                                        product_id, adj_qty, Strip(reason), adjusted_by), Ok)

(* mutation: every matching row is counted, not every distinct invoice *)
generate_invoice_CountRows(d) ==
    LET today_str == Today
        like_pattern == "INV-" \o today_str \o "-"
        count == Len(SelectSeq(d.sales, LAMBDA r : LikePrefix(r.invoice, like_pattern))) + 1
    IN [Result(d, Ok) EXCEPT !.ret = "INV-" \o today_str \o "-" \o Format03(count)]

generate_invoice(d) ==
    LET today_str == Today
        like_pattern == "INV-" \o today_str \o "-"
        matching == {d.sales[i].invoice :
                        i \in {j \in 1..Len(d.sales) :
                                  LikePrefix(d.sales[j].invoice, like_pattern)}}
        count == Cardinality(matching) + 1
    IN [Result(d, Ok) EXCEPT !.ret = "INV-" \o today_str \o "-" \o Format03(count)]

(* mutation: unit_cost is re-read from the product instead of the cart line *)
SaleLine_RereadCost(w, invoice, item, sold_by) ==
    LET per_unit_discount == Round2(item.discount)
        final_total == Round2(item.qty * (item.unit_price - per_unit_discount))
    IN IF item.qty <= 0 THEN Result(w, ErrQtyPositive)
       ELSE IF final_total < 0 THEN Result(w, ErrTotalNegative)
       ELSE IF ~ProductExists(w, item.product_id) THEN Result(w, ErrProductNotFound)
       ELSE IF item.qty > Quantity(w, item.product_id) THEN Result(w, ErrUnits)
       ELSE [Result(SetQuantity(
                      InsertSale(w, invoice, item.product_id, item.qty, item.unit_price,
                                 w.products[item.product_id].cost, per_unit_discount,
                                 final_total, sold_by),
                      item.product_id, Quantity(w, item.product_id) - item.qty), Ok)
             EXCEPT !.ret = final_total]

(* mutation: the stock check is missing *)
SaleLine_NoStockCheck(w, invoice, item, sold_by) ==
    LET per_unit_discount == Round2(item.discount)
        final_total == Round2(item.qty * (item.unit_price - per_unit_discount))
    IN IF item.qty <= 0 THEN Result(w, ErrQtyPositive)
       ELSE IF final_total < 0 THEN Result(w, ErrTotalNegative)
       ELSE IF ~ProductExists(w, item.product_id) THEN Result(w, ErrProductNotFound)
       ELSE [Result(SetQuantity(
                      InsertSale(w, invoice, item.product_id, item.qty, item.unit_price,
                                 item.unit_cost, per_unit_discount, final_total, sold_by),
                      item.product_id, Quantity(w, item.product_id) - item.qty), Ok)
             EXCEPT !.ret = final_total]

(* mutation: the line contributes its total before rounding to the sum *)
SaleLine_ReturnsUnrounded(w, invoice, item, sold_by) ==
    LET per_unit_discount == Round2(item.discount)
        final_total == Round2(item.qty * (item.unit_price - per_unit_discount))
    IN IF item.qty <= 0 THEN Result(w, ErrQtyPositive)
       ELSE IF final_total < 0 THEN Result(w, ErrTotalNegative)
       ELSE IF ~ProductExists(w, item.product_id) THEN Result(w, ErrProductNotFound)
       ELSE IF item.qty > Quantity(w, item.product_id) THEN Result(w, ErrUnits)
       ELSE [Result(SetQuantity(
                      InsertSale(w, invoice, item.product_id, item.qty, item.unit_price,
                                 item.unit_cost, per_unit_discount, final_total, sold_by),
                      item.product_id, Quantity(w, item.product_id) - item.qty), Ok)
             EXCEPT !.ret = item.qty * (item.unit_price - per_unit_discount)]

(* mutation: the product and the stock are checked before qty and total *)
SaleLine_StockFirst(w, invoice, item, sold_by) ==
    LET per_unit_discount == Round2(item.discount)
        final_total == Round2(item.qty * (item.unit_price - per_unit_discount))
    IN IF ~ProductExists(w, item.product_id) THEN Result(w, ErrProductNotFound)
       ELSE IF item.qty > Quantity(w, item.product_id) THEN Result(w, ErrUnits)
       ELSE IF item.qty <= 0 THEN Result(w, ErrQtyPositive)
       ELSE IF final_total < 0 THEN Result(w, ErrTotalNegative)
       ELSE [Result(SetQuantity(
                      InsertSale(w, invoice, item.product_id, item.qty, item.unit_price,
                                 item.unit_cost, per_unit_discount, final_total, sold_by),
                      item.product_id, Quantity(w, item.product_id) - item.qty), Ok)
             EXCEPT !.ret = final_total]

(* one pass of the loop body of record_sale over item, on the working store w *)
SaleLine(w, invoice, item, sold_by) ==
    LET per_unit_discount == Round2(item.discount)
        final_total == Round2(item.qty * (item.unit_price - per_unit_discount))
    IN IF item.qty <= 0 THEN Result(w, ErrQtyPositive)
       ELSE IF final_total < 0 THEN Result(w, ErrTotalNegative)
       ELSE IF ~ProductExists(w, item.product_id) THEN Result(w, ErrProductNotFound)
       ELSE IF item.qty > Quantity(w, item.product_id) THEN Result(w, ErrUnits)
       ELSE [Result(SetQuantity(
                      InsertSale(w, invoice, item.product_id, item.qty, item.unit_price,
                                 item.unit_cost, per_unit_discount, final_total, sold_by),
                      item.product_id, Quantity(w, item.product_id) - item.qty), Ok)
             EXCEPT !.ret = final_total]

(* mutation: a failing line keeps the writes of the lines before it *)
RECURSIVE SaleLoop_NoRollback(_, _, _, _, _, _)
SaleLoop_NoRollback(d, w, invoice, items, sold_by, i) ==
    IF i > Len(items) THEN Result(w, Ok)
    ELSE LET r == SaleLine(w, invoice, items[i], sold_by)
         IN IF r.err # Ok
            THEN [Result(w, r.err) EXCEPT !.line = i]
            ELSE SaleLoop_NoRollback(d, r.db, invoice, items, sold_by, i + 1)

RECURSIVE SaleLoop(_, _, _, _, _, _)
SaleLoop(d, w, invoice, items, sold_by, i) ==
    IF i > Len(items) THEN Result(w, Ok)
    ELSE LET r == SaleLine(w, invoice, items[i], sold_by)
         IN IF r.err # Ok
            THEN [Result(d, r.err) EXCEPT !.line = i]
            ELSE LET rest == SaleLoop(d, r.db, invoice, items, sold_by, i + 1)
                 IN IF rest.err # Ok THEN rest
                    ELSE [rest EXCEPT !.ret = r.ret + @]

(* mutation: every line is checked against the stock before the call *)
RECURSIVE ApplyLines(_, _, _, _, _)
ApplyLines(w, invoice, items, sold_by, i) ==
    IF i > Len(items) THEN Result(w, Ok)
    ELSE LET r == SaleLine_NoStockCheck(w, invoice, items[i], sold_by)
             rest == ApplyLines(r.db, invoice, items, sold_by, i + 1)
         IN [rest EXCEPT !.ret = r.ret + @]

record_sale_Independent(d, invoice, items, sold_by) ==
    IF items = <<>> THEN Result(d, ErrEmptySale)
    ELSE LET failing == {i \in 1..Len(items) : SaleLine(d, invoice, items[i], sold_by).err # Ok}
         IN IF failing # {}
            THEN LET i == CHOOSE x \in failing : \A y \in failing : x <= y
                 IN [Result(d, SaleLine(d, invoice, items[i], sold_by).err) EXCEPT !.line = i]
            ELSE ApplyLines(d, invoice, items, sold_by, 1)

record_sale(d, invoice, items, sold_by) ==
    IF items = <<>> THEN Result(d, ErrEmptySale)
    ELSE SaleLoop(d, d, invoice, items, sold_by, 1)

(* mutation: only the first row of the invoice gives its stock back *)
RestoreStock_HeadOnly(w, rows) ==
    IF rows = <<>> THEN w
    ELSE LET sale == Head(rows)
         IN IF ProductExists(w, sale.product_id)
            THEN SetQuantity(w, sale.product_id, Quantity(w, sale.product_id) + sale.qty)
            ELSE w

RECURSIVE RestoreStock(_, _)
RestoreStock(w, rows) ==
    IF rows = <<>> THEN w
    ELSE LET sale == Head(rows)
         IN RestoreStock(
                IF ProductExists(w, sale.product_id)
                THEN SetQuantity(w, sale.product_id, Quantity(w, sale.product_id) + sale.qty)
                ELSE w,
                Tail(rows))

(* mutation: DELETE FROM sales without the invoice filter *)
undo_sale_DeleteAll(d, invoice) ==
    LET rows == SelectSeq(d.sales, LAMBDA r : r.invoice = invoice)
    IN IF rows = <<>> THEN Result(d, ErrNoSales)
       ELSE Result([RestoreStock(d, rows) EXCEPT !.sales = <<>>], Ok)

(* mutation: an invoice without rows is not refused *)
undo_sale_Unchecked(d, invoice) ==
    LET rows == SelectSeq(d.sales, LAMBDA r : r.invoice = invoice)
    IN Result([RestoreStock(d, rows) EXCEPT
                    !.sales = SelectSeq(@, LAMBDA r : r.invoice # invoice)], Ok)

undo_sale(d, invoice) ==
    LET rows == SelectSeq(d.sales, LAMBDA r : r.invoice = invoice)
    IN IF rows = <<>> THEN Result(d, ErrNoSales)
       ELSE Result([RestoreStock(d, rows) EXCEPT
                        !.sales = SelectSeq(@, LAMBDA r : r.invoice # invoice)], Ok)

---------------------------------------------------------------------------
(* Callers' inputs *)

Names == {<<" ">>, <<" ", "Med">>}

Reasons == {<<>>, <<" ">>, <<"test">>, <<" ", "test", " ">>}

(* price and cost of a catalog entry *)
ProductPrices == {<<14, 6>>, <<-10, 5>>}

Quantities == -1..MaxQty

(* unit_price, unit_cost and per-unit discount of a cart line: a plain line, *)
(* a discount that is no whole cent, a discount above the price, and a line  *)
(* whose three amounts are below zero while its total is not                 *)
LinePrices == {<<10, 3, 0>>, <<14, 3, 7>>, <<4, 3, 7>>, <<-10, -10, -20>>}

Item(product_id, qty, lp) ==
    [product_id |-> product_id, qty |-> qty, unit_price |-> lp[1],
     unit_cost |-> lp[2], discount |-> lp[3]]

PlainPrice == <<10, 3, 0>>

(* every product and quantity at the plain price, the other prices on one line each *)
LineItems ==
    {Item(p, q, PlainPrice) : p \in ProductIds, q \in 0..MaxQty}
    \cup {Item(1, 1, lp) : lp \in LinePrices}

RECURSIVE SeqsUpTo(_, _)
SeqsUpTo(S, n) ==
    IF n = 0 THEN {<<>>}
    ELSE LET shorter == SeqsUpTo(S, n - 1)
         IN shorter \cup {Append(t, x) : t \in {u \in shorter : Len(u) = n - 1}, x \in S}

Carts == SeqsUpTo(LineItems, MaxLines)

NoReq == [op |-> "none"]

(* the users a caller who passes its own id is signed in as *)
SignedIn(d) == Actors \cap d.users

(* the calls a caller may issue on the store d, within the bounds *)
Requests(d) ==
    LET rows == Len(d.sales) + Len(d.stock_adjustments)
        roomAdj == Len(d.stock_adjustments) < MaxAdj /\ rows < MaxRows
    IN  {[op |-> "add_product", name |-> n, quantity |-> q, price |-> pp[1], cost |-> pp[2]] :
            n \in {x \in Names : roomAdj /\ d.products_seq < MaxProducts},
            q \in Quantities, pp \in ProductPrices}
        \cup
        {[op |-> "update_product", product_id |-> p, name |-> n, price |-> pp[1],
          cost |-> pp[2], new_quantity |-> q, adjusted_by |-> a] :
            p \in {x \in ProductIds : roomAdj}, n \in Names, pp \in ProductPrices,
            q \in Quantities, a \in SignedIn(d)}
        \cup
        {[op |-> "delete_product", product_id |-> p] : p \in ProductIds}
        \cup
        UNION {
          {[op |-> "adjust_stock", product_id |-> p, adj_qty |-> q, reason |-> r,
            adjusted_by |-> a] :
              q \in {x \in (-MaxQty - 1)..MaxQty :
                       ProductExists(d, p) => Quantity(d, p) + x <= MaxQty},
              r \in Reasons, a \in SignedIn(d)} :
          p \in {x \in ProductIds : roomAdj}}
        \cup
        {[op |-> "record_sale", invoice |-> i, items |-> c, sold_by |-> a] :
            i \in Invoices,
            c \in {x \in Carts : Len(d.sales) + Len(x) <= MaxSales /\ rows + Len(x) <= MaxRows},
            a \in SignedIn(d)}
        \cup
        {[op |-> "undo_sale", invoice |-> i] : i \in Invoices}
        \cup
        {[op |-> "generate_invoice"]}
        \cup
        {[op |-> "delete_user", user_id |-> u] : u \in UserIds}

---------------------------------------------------------------------------
(* One caller: Spec *)

NoRes == [err |-> "none", line |-> 0, ret |-> 0]

NoHist == [op |-> "none"]

Init ==
    /\ db = init_db
    /\ prev = init_db
    /\ pc = "idle"
    /\ req = NoReq
    /\ res = NoRes
    /\ hist = NoHist
    /\ conn = <<>>
    /\ writer = 0
    /\ wdb = init_db

(* a caller invokes a handler *)
Call ==
    /\ pc = "idle"
    /\ \E r \in Requests(db) :
          /\ req' = r
          /\ hist' = IF r.op = "undo_sale" /\ hist.op # "none" /\ r.invoice = hist.invoice
                     THEN hist ELSE NoHist
    /\ pc' = "called"
    /\ UNCHANGED <<db, prev, res, conn, writer, wdb>>

(* the handler returns or raises: prev keeps the store it was called on *)
Return(r) ==
    /\ pc = "called"
    /\ db' = r.db
    /\ prev' = db
    /\ res' = [err |-> r.err, line |-> r.line, ret |-> r.ret]
    /\ pc' = "returned"
    /\ UNCHANGED <<req, hist, conn, writer, wdb>>

AddProduct ==
    /\ req.op = "add_product"
    /\ Return(add_product(db, req.name, req.quantity, req.price, req.cost))

UpdateProduct ==
    /\ req.op = "update_product"
    /\ Return(update_product(db, req.product_id, req.name, req.price, req.cost,
                             req.new_quantity, req.adjusted_by))

DeleteProduct ==
    /\ req.op = "delete_product"
    /\ Return(delete_product(db, req.product_id))

AdjustStock ==
    /\ req.op = "adjust_stock"
    /\ Return(adjust_stock(db, req.product_id, req.adj_qty, req.reason, req.adjusted_by))

RecordSale ==
    /\ req.op = "record_sale"
    /\ Return(record_sale(db, req.invoice, req.items, req.sold_by))

UndoSale ==
    /\ req.op = "undo_sale"
    /\ Return(undo_sale(db, req.invoice))

DeleteUser ==
    /\ req.op = "delete_user"
    /\ Return(delete_user(db, req.user_id))

GenerateInvoice ==
    /\ req.op = "generate_invoice"
    /\ Return(generate_invoice(db))

(* the caller has the outcome; the store is quiescent again *)
Done ==
    /\ pc = "returned"
    /\ pc' = "idle"
    /\ req' = NoReq
    /\ res' = NoRes
    /\ prev' = db
    /\ hist' = IF req.op \in {"record_sale", "undo_sale"} /\ res.err = Ok
               THEN [op |-> req.op, invoice |-> req.invoice, before |-> prev]
               ELSE NoHist
    /\ UNCHANGED <<db, conn, writer, wdb>>

Next ==
    \/ Call
    \/ AddProduct
    \/ UpdateProduct
    \/ DeleteProduct
    \/ AdjustStock
    \/ RecordSale
    \/ UndoSale
    \/ GenerateInvoice
    \/ DeleteUser
    \/ Done

Spec == Init /\ [][Next]_vars

---------------------------------------------------------------------------
(* The sales page: SpecPage.  The checkout form is filled with the value   *)
(* of generate_invoice(conn), and the sale is recorded under the invoice   *)
(* number of the form; a session may undo the sale of its receipt.         *)

(* the checkout form is rendered: invoice = generate_invoice(conn) *)
PageForm ==
    /\ pc = "idle"
    /\ req' = [op |-> "generate_invoice"]
    /\ pc' = "called"
    /\ hist' = NoHist
    /\ UNCHANGED <<db, prev, res, conn, writer, wdb>>

(* the form is submitted with the proposed number: record_sale(conn,       *)
(* invoice, cart, sold_by)                                                  *)
PageSubmit ==
    /\ pc = "returned" /\ req.op = "generate_invoice"
    /\ \E c \in Carts, a \in SignedIn(db) :
          /\ c # <<>>
          /\ Len(db.sales) + Len(c) <= MaxSales
          /\ req' = [op |-> "record_sale", invoice |-> res.ret, items |-> c, sold_by |-> a]
    /\ res' = NoRes
    /\ pc' = "called"
    /\ UNCHANGED <<db, prev, hist, conn, writer, wdb>>

(* "Undo Last Sale" on the receipt of a session *)
PageUndo ==
    /\ pc = "idle"
    /\ \E i \in 1..Len(db.sales) : req' = [op |-> "undo_sale", invoice |-> db.sales[i].invoice]
    /\ pc' = "called"
    /\ hist' = NoHist
    /\ UNCHANGED <<db, prev, res, conn, writer, wdb>>

NextPage ==
    \/ PageForm
    \/ GenerateInvoice
    \/ PageSubmit
    \/ RecordSale
    \/ PageUndo
    \/ UndoSale
    \/ Done

SpecPage == Init /\ [][NextPage]_vars

---------------------------------------------------------------------------
(* Two users: SpecUsers.  add_user has inserted a second user; either user *)
(* signs in, sells and adjusts stock, and users are deleted.               *)

(* the users table after add_user(conn, username, password) on the seeded  *)
(* table: AUTOINCREMENT gives the new row the next id                      *)
add_user == [init_db EXCEPT !.users = @ \cup {2}]

InitUsers ==
    /\ db = add_user
    /\ prev = add_user
    /\ pc = "idle"
    /\ req = NoReq
    /\ res = NoRes
    /\ hist = NoHist
    /\ conn = <<>>
    /\ writer = 0
    /\ wdb = add_user

(* the calls of the two users on the store d, within the bounds *)
UserRequests(d) ==
    LET rows == Len(d.sales) + Len(d.stock_adjustments)
        roomAdj == Len(d.stock_adjustments) < MaxAdj /\ rows < MaxRows
    IN  {[op |-> "add_product", name |-> <<"Med">>, quantity |-> 1, price |-> 14, cost |-> 6] :
            x \in {y \in {1} : roomAdj /\ d.products_seq < MaxProducts}}
        \cup
        {[op |-> "adjust_stock", product_id |-> 1, adj_qty |-> q, reason |-> <<"test">>,
          adjusted_by |-> a] :
            q \in {x \in {-1, 1} : roomAdj /\ Quantity(d, 1) + x <= MaxQty},
            a \in d.users}
        \cup
        {[op |-> "record_sale", invoice |-> i, items |-> <<Item(1, 1, PlainPrice)>>,
          sold_by |-> a] :
            i \in {x \in Invoices : Len(d.sales) < MaxSales /\ rows < MaxRows},
            a \in d.users}
        \cup
        {[op |-> "delete_user", user_id |-> u] : u \in UserIds}

UserCall ==
    /\ pc = "idle"
    /\ \E r \in UserRequests(db) : req' = r
    /\ pc' = "called"
    /\ UNCHANGED <<db, prev, res, hist, conn, writer, wdb>>

NextUsers ==
    \/ UserCall
    \/ AddProduct
    \/ AdjustStock
    \/ RecordSale
    \/ DeleteUser
    \/ Done

SpecUsers == InitUsers /\ [][NextUsers]_vars

---------------------------------------------------------------------------
(* Two connections: SpecConc.  Every run of the app opens its own          *)
(* connection to pharmacy.db (get_connection), so two callers are two      *)
(* connections.  sqlite3 opens a transaction implicitly at the first       *)
(* INSERT/UPDATE/DELETE, which takes the database's write lock; a SELECT   *)
(* outside a transaction reads the committed store and holds no lock       *)
(* afterwards.  A write statement that finds the lock taken waits for it,  *)
(* and gives up with "database is locked" when the wait exceeds the        *)
(* connection's timeout.                                                   *)

Conns == {1, 2}

ConcMaxSales == 3

ConcMaxAdj == 2

(* calls issued on the two connections together *)
MaxCalls == 3

(* carts of the concurrent callers: one product, plain price *)
ConcCarts ==
    {<<Item(1, q, PlainPrice)>> : q \in 1..MaxQty}
    \cup {<<Item(1, 1, PlainPrice), Item(1, 1, PlainPrice)>>}

(* invoice numbers of the concurrent callers *)
ConcInvoices == {"INV-251104-001", "INV-251104-002"}

(* stock changes of the concurrent callers: adjust_stock deltas and        *)
(* update_product quantities                                               *)
ConcDeltas == {-1, 1}
ConcQuantities == {1, 2}

(* a connection between calls, n calls issued on it so far *)
Idle(n) == [pc |-> "idle", calls |-> n]

IdleConn == Idle(0)

(* the store a statement of connection c works on *)
View(c) == IF writer = c THEN wdb ELSE db

Running(c) == conn[c].pc \notin {"idle", "returned"}

(* lines of carts in flight, for the bound on the Sale Ledger *)
InFlight ==
    LET n(c) == IF Running(c) /\ conn[c].op = "record_sale" THEN Len(conn[c].items) ELSE 0
    IN n(1) + n(2)

(* calls in flight that may append an adjustment row *)
AdjInFlight ==
    Cardinality({c \in Conns : Running(c) /\ conn[c].op \in {"adjust_stock", "update_product"}})

InitConc ==
    /\ db = init_db
    /\ prev = init_db
    /\ pc = "idle"
    /\ req = NoReq
    /\ res = NoRes
    /\ hist = NoHist
    /\ conn = [c \in Conns |-> IdleConn]
    /\ writer = 0
    /\ wdb = init_db

Rest == <<prev, pc, req, res, hist>>

(* what every call keeps: the committed store it was issued on (d0), how   *)
(* many commits of the other connection it has overlapped (seen: 0, 1, 2   *)
(* for more), and the committed store it returned on (d1)                  *)
Entered(c, call) ==
    /\ conn[1].calls + conn[2].calls < MaxCalls
    /\ conn' = [conn EXCEPT ![c] =
          call @@ [err |-> "none", d0 |-> db, d1 |-> db, seen |-> 0, calls |-> conn[c].calls + 1]]
    /\ UNCHANGED <<db, writer, wdb, Rest>>

(* record_sale is called on connection c (lines 520-526) *)
SaleCall(c) ==
    /\ conn[c].pc = "idle"
    /\ \E inv \in ConcInvoices, items \in ConcCarts, a \in Actors :
          /\ Len(db.sales) + InFlight + Len(items) <= ConcMaxSales
          /\ Entered(c, [pc |-> "check", op |-> "record_sale", invoice |-> inv,
                         items |-> items, sold_by |-> a, i |-> 1, ret |-> 0])

(* an exception leaves "with conn", or ends a run whose connection is      *)
(* closed: the transaction, if any, is rolled back                         *)
Raise(c, err) ==
    /\ conn' = [conn EXCEPT ![c].pc = "returned", ![c].err = err, ![c].d1 = db]
    /\ writer' = IF writer = c THEN 0 ELSE writer
    /\ wdb' = IF writer = c THEN db ELSE wdb
    /\ UNCHANGED <<db, Rest>>

(* COMMIT: the writes of c become the committed store *)
Commit(c) ==
    /\ writer = c
    /\ db' = wdb
    /\ writer' = 0
    /\ conn' = [o \in Conns |->
                  IF o = c THEN [conn[c] EXCEPT !.pc = "returned", !.err = Ok, !.d1 = wdb]
                  ELSE IF Running(o)
                       THEN [conn[o] EXCEPT !.seen = IF @ = 0 THEN 1 ELSE 2]
                       ELSE conn[o]]
    /\ UNCHANGED <<wdb, Rest>>

(* the first write statement of a transaction finds the write lock held    *)
(* and its wait times out                                                  *)
Locked(c) ==
    /\ writer \notin {0, c}
    /\ Raise(c, ErrLocked)

(* the checks of one line and its SELECT quantity (lines 532-553) *)
SaleCheck(c) ==
    /\ conn[c].pc = "check"
    /\ LET item == conn[c].items[conn[c].i]
           per_unit_discount == Round2(item.discount)
           final_total == Round2(item.qty * (item.unit_price - per_unit_discount))
       IN IF item.qty <= 0 THEN Raise(c, ErrQtyPositive)
          ELSE IF final_total < 0 THEN Raise(c, ErrTotalNegative)
          ELSE IF ~ProductExists(View(c), item.product_id) THEN Raise(c, ErrProductNotFound)
          ELSE IF item.qty > Quantity(View(c), item.product_id) THEN Raise(c, ErrUnits)
          ELSE /\ conn' = [conn EXCEPT ![c].pc = "insert"]
               /\ UNCHANGED <<db, writer, wdb, Rest>>

(* mutation: the INSERT is committed on its own, as on a connection in      *)
(* autocommit mode                                                          *)
SaleInsert_AutoCommit(c) ==
    /\ conn[c].pc = "insert"
    /\ writer \in {0, c}
    /\ LET item == conn[c].items[conn[c].i]
           per_unit_discount == Round2(item.discount)
           final_total == Round2(item.qty * (item.unit_price - per_unit_discount))
           w == InsertSale(View(c), conn[c].invoice, item.product_id, item.qty,
                           item.unit_price, item.unit_cost, per_unit_discount,
                           final_total, conn[c].sold_by)
       IN /\ wdb' = w
          /\ db' = w
          /\ conn' = [conn EXCEPT ![c].pc = "update", ![c].ret = @ + final_total]
    /\ writer' = c
    /\ UNCHANGED Rest

(* INSERT INTO sales (lines 556-562): opens the transaction if none is open *)
SaleInsert(c) ==
    /\ conn[c].pc = "insert"
    /\ writer \in {0, c}
    /\ LET item == conn[c].items[conn[c].i]
           per_unit_discount == Round2(item.discount)
           final_total == Round2(item.qty * (item.unit_price - per_unit_discount))
       IN /\ wdb' = InsertSale(View(c), conn[c].invoice, item.product_id, item.qty,
                               item.unit_price, item.unit_cost, per_unit_discount,
                               final_total, conn[c].sold_by)
          /\ conn' = [conn EXCEPT ![c].pc = "update", ![c].ret = @ + final_total]
    /\ writer' = c
    /\ UNCHANGED <<db, Rest>>

(* the INSERT finds the write lock held and its wait times out *)
SaleLocked(c) ==
    /\ conn[c].pc = "insert"
    /\ Locked(c)

(* UPDATE products SET quantity = quantity - ? (lines 565-566), next line *)
SaleUpdate(c) ==
    /\ conn[c].pc = "update"
    /\ writer = c
    /\ LET item == conn[c].items[conn[c].i]
       IN wdb' = IF ProductExists(wdb, item.product_id)
                 THEN SetQuantity(wdb, item.product_id,
                                  Quantity(wdb, item.product_id) - item.qty)
                 ELSE wdb
    /\ conn' = [conn EXCEPT ![c].i = @ + 1,
                            ![c].pc = IF conn[c].i < Len(conn[c].items)
                                      THEN "check" ELSE "commit"]
    /\ UNCHANGED <<db, writer, Rest>>

(* "with conn" ends without exception: COMMIT, return sum(totals) *)
SaleCommit(c) ==
    /\ conn[c].pc = "commit"
    /\ Commit(c)

(* adjust_stock is called on connection c; its argument checks pass       *)
(* (lines 465-470)                                                         *)
AdjustCall(c) ==
    /\ conn[c].pc = "idle"
    /\ \E x \in ConcDeltas, a \in Actors :
          /\ Len(db.stock_adjustments) + AdjInFlight < ConcMaxAdj
          /\ Entered(c, [pc |-> "adj_read", op |-> "adjust_stock", product_id |-> 1,
                         adj_qty |-> x, reason |-> <<"test">>, adjusted_by |-> a,
                         new_qty |-> 0])

(* get_product, new_qty = current_qty + adj_qty and its check (lines       *)
(* 472-481): no transaction is open yet                                    *)
AdjustRead(c) ==
    /\ conn[c].pc = "adj_read"
    /\ IF ~ProductExists(View(c), conn[c].product_id) THEN Raise(c, ErrProductNotFound)
       ELSE LET new_qty == Quantity(View(c), conn[c].product_id) + conn[c].adj_qty
            IN IF new_qty < 0 THEN Raise(c, ErrBelowZero)
               ELSE /\ conn' = [conn EXCEPT ![c].pc = "adj_update", ![c].new_qty = new_qty]
                    /\ UNCHANGED <<db, writer, wdb, Rest>>

(* UPDATE products SET quantity = new_qty (line 484): opens the transaction *)
AdjustUpdate(c) ==
    /\ conn[c].pc = "adj_update"
    /\ writer \in {0, c}
    /\ wdb' = SetQuantity(View(c), conn[c].product_id, conn[c].new_qty)
    /\ writer' = c
    /\ conn' = [conn EXCEPT ![c].pc = "adj_insert"]
    /\ UNCHANGED <<db, Rest>>

AdjustLocked(c) ==
    /\ conn[c].pc = "adj_update"
    /\ Locked(c)

(* INSERT INTO stock_adjustments (lines 485-488) *)
AdjustInsert(c) ==
    /\ conn[c].pc = "adj_insert"
    /\ writer = c
    /\ wdb' = InsertAdjustment(wdb, conn[c].product_id, conn[c].adj_qty,
                               Strip(conn[c].reason), conn[c].adjusted_by)
    /\ conn' = [conn EXCEPT ![c].pc = "adj_commit"]
    /\ UNCHANGED <<db, writer, Rest>>

AdjustCommit(c) ==
    /\ conn[c].pc = "adj_commit"
    /\ Commit(c)

(* update_product is called on connection c with the name, price and cost *)
(* the product has; its argument checks pass (lines 412-419)               *)
EditCall(c) ==
    /\ conn[c].pc = "idle"
    /\ \E n \in ConcQuantities, a \in Actors :
          /\ Len(db.stock_adjustments) + AdjInFlight < ConcMaxAdj
          /\ Entered(c, [pc |-> "edit_read", op |-> "update_product", product_id |-> 1,
                         name |-> <<"Med">>, price |-> 10, cost |-> 5,
                         new_quantity |-> n, adjusted_by |-> a, adjustment_qty |-> 0])

(* get_product and adjustment_qty = new_quantity - current_quantity        *)
(* (lines 421-429): no transaction is open yet                             *)
EditRead(c) ==
    /\ conn[c].pc = "edit_read"
    /\ IF ~ProductExists(View(c), conn[c].product_id) THEN Raise(c, ErrProductNotFound)
       ELSE /\ conn' = [conn EXCEPT
                  ![c].pc = "edit_update",
                  ![c].adjustment_qty =
                      conn[c].new_quantity - Quantity(View(c), conn[c].product_id)]
            /\ UNCHANGED <<db, writer, wdb, Rest>>

(* UPDATE products SET name=?, ..., quantity=? WHERE id=? (lines 433-436) *)
EditUpdate(c) ==
    /\ conn[c].pc = "edit_update"
    /\ writer \in {0, c}
    /\ wdb' = IF ProductExists(View(c), conn[c].product_id)
              THEN [View(c) EXCEPT !.products[conn[c].product_id] =
                        [name |-> Strip(conn[c].name), quantity |-> conn[c].new_quantity,
                         price |-> conn[c].price, cost |-> conn[c].cost]]
              ELSE View(c)
    /\ writer' = c
    /\ conn' = [conn EXCEPT ![c].pc = "edit_insert"]
    /\ UNCHANGED <<db, Rest>>

EditLocked(c) ==
    /\ conn[c].pc = "edit_update"
    /\ Locked(c)

(* the adjustment row, if adjustment_qty != 0 (lines 439-444) *)
EditInsert(c) ==
    /\ conn[c].pc = "edit_insert"
    /\ writer = c
    /\ wdb' = IF conn[c].adjustment_qty # 0
              THEN InsertAdjustment(wdb, conn[c].product_id, conn[c].adjustment_qty,
                                    ManualEditReason(conn[c].new_quantity),
                                    conn[c].adjusted_by)
              ELSE wdb
    /\ conn' = [conn EXCEPT ![c].pc = "edit_commit"]
    /\ UNCHANGED <<db, writer, Rest>>

EditCommit(c) ==
    /\ conn[c].pc = "edit_commit"
    /\ Commit(c)

(* undo_sale is called on connection c *)
UndoCall(c) ==
    /\ conn[c].pc = "idle"
    /\ \E inv \in ConcInvoices :
          Entered(c, [pc |-> "undo_select", op |-> "undo_sale", invoice |-> inv,
                      sales |-> <<>>, i |-> 1])

(* SELECT product_id, qty FROM sales WHERE invoice = ? (lines 576-586):    *)
(* no transaction is open yet                                              *)
UndoSelect(c) ==
    /\ conn[c].pc = "undo_select"
    /\ LET rows == SelectSeq(View(c).sales, LAMBDA r : r.invoice = conn[c].invoice)
       IN IF rows = <<>> THEN Raise(c, ErrNoSales)
          ELSE /\ conn' = [conn EXCEPT
                     ![c].pc = "undo_restore",
                     ![c].sales = [i \in 1..Len(rows) |->
                                      [product_id |-> rows[i].product_id,
                                       qty |-> rows[i].qty]]]
               /\ UNCHANGED <<db, writer, wdb, Rest>>

(* UPDATE products SET quantity = quantity + ? WHERE id=? for one fetched  *)
(* row (lines 590-593): the first one opens the transaction                *)
UndoRestore(c) ==
    /\ conn[c].pc = "undo_restore"
    /\ writer \in {0, c}
    /\ LET sale == conn[c].sales[conn[c].i]
       IN wdb' = IF ProductExists(View(c), sale.product_id)
                 THEN SetQuantity(View(c), sale.product_id,
                                  Quantity(View(c), sale.product_id) + sale.qty)
                 ELSE View(c)
    /\ writer' = c
    /\ conn' = [conn EXCEPT ![c].i = @ + 1,
                            ![c].pc = IF conn[c].i < Len(conn[c].sales)
                                      THEN "undo_restore" ELSE "undo_delete"]
    /\ UNCHANGED <<db, Rest>>

UndoLocked(c) ==
    /\ conn[c].pc = "undo_restore"
    /\ Locked(c)

(* mutation: the DELETE is not followed by the rowcount check *)
UndoDelete_NoRowcount(c) ==
    /\ conn[c].pc = "undo_delete"
    /\ writer = c
    /\ wdb' = [wdb EXCEPT !.sales = SelectSeq(@, LAMBDA r : r.invoice # conn[c].invoice)]
    /\ conn' = [conn EXCEPT ![c].pc = "undo_commit"]
    /\ UNCHANGED <<db, writer, Rest>>

(* DELETE FROM sales WHERE invoice = ? and the rowcount check (lines       *)
(* 596-598)                                                                *)
UndoDelete(c) ==
    /\ conn[c].pc = "undo_delete"
    /\ writer = c
    /\ IF \A i \in 1..Len(wdb.sales) : wdb.sales[i].invoice # conn[c].invoice
       THEN Raise(c, ErrDeletionFailed)
       ELSE /\ wdb' = [wdb EXCEPT !.sales = SelectSeq(@, LAMBDA r : r.invoice # conn[c].invoice)]
            /\ conn' = [conn EXCEPT ![c].pc = "undo_commit"]
            /\ UNCHANGED <<db, writer, Rest>>

UndoCommit(c) ==
    /\ conn[c].pc = "undo_commit"
    /\ Commit(c)

(* delete_product is called on connection c *)
DeleteCall(c) ==
    /\ conn[c].pc = "idle"
    /\ Entered(c, [pc |-> "del_count", op |-> "delete_product", product_id |-> 1])

(* SELECT COUNT ... FROM sales WHERE product_id=? (lines 451-454): no   *)
(* transaction is open yet                                                 *)
DeleteCount(c) ==
    /\ conn[c].pc = "del_count"
    /\ IF \E i \in 1..Len(View(c).sales) : View(c).sales[i].product_id = conn[c].product_id
       THEN Raise(c, ErrHasSales)
       ELSE /\ conn' = [conn EXCEPT ![c].pc = "del_adjustments"]
            /\ UNCHANGED <<db, writer, wdb, Rest>>

(* DELETE FROM stock_adjustments WHERE product_id=? (line 457): opens the  *)
(* transaction                                                             *)
DeleteAdjustments(c) ==
    /\ conn[c].pc = "del_adjustments"
    /\ writer \in {0, c}
    /\ wdb' = [View(c) EXCEPT !.stock_adjustments =
                    SelectSeq(@, LAMBDA r : r.product_id # conn[c].product_id)]
    /\ writer' = c
    /\ conn' = [conn EXCEPT ![c].pc = "del_product"]
    /\ UNCHANGED <<db, Rest>>

DeleteLocked(c) ==
    /\ conn[c].pc = "del_adjustments"
    /\ Locked(c)

(* DELETE FROM products WHERE id=? and the rowcount check (lines 460-462) *)
DeleteRow(c) ==
    /\ conn[c].pc = "del_product"
    /\ writer = c
    /\ IF ~ProductExists(wdb, conn[c].product_id) THEN Raise(c, ErrProductNotFound)
       ELSE /\ wdb' = [wdb EXCEPT !.products =
                          [p \in DOMAIN @ \ {conn[c].product_id} |-> @[p]]]
            /\ conn' = [conn EXCEPT ![c].pc = "del_commit"]
            /\ UNCHANGED <<db, writer, Rest>>

(* conn.commit() (line 463) *)
DeleteCommit(c) ==
    /\ conn[c].pc = "del_commit"
    /\ Commit(c)

(* generate_invoice is called on connection c (lines 511-515); it stands   *)
(* for the readers, each one SELECT outside any transaction                *)
InvoiceCall(c) ==
    /\ conn[c].pc = "idle"
    /\ Entered(c, [pc |-> "gen_select", op |-> "generate_invoice", ret |-> "",
                   snap |-> db, pending |-> db])

(* mutation: the returned number is reserved by a row of the Sale Ledger *)
InvoiceSelect_Reserves(c) ==
    /\ conn[c].pc = "gen_select"
    /\ writer = 0
    /\ LET ret == generate_invoice(db).ret
           w == InsertSale(db, ret, 1, 0, 0, 0, 0, 0, NULL)
       IN /\ db' = w
          /\ wdb' = w
          /\ conn' = [conn EXCEPT ![c].pc = "returned", ![c].err = Ok, ![c].ret = ret,
                                  ![c].snap = db, ![c].pending = db, ![c].d1 = w]
    /\ UNCHANGED <<writer, Rest>>

(* SELECT COUNT(DISTINCT invoice) ... and the return (lines 516-518): the  *)
(* SELECT reads the committed store (snap), whatever another connection    *)
(* has written and not committed (pending)                                 *)
InvoiceSelect(c) ==
    /\ conn[c].pc = "gen_select"
    /\ conn' = [conn EXCEPT ![c].pc = "returned",
                            ![c].err = Ok,
                            ![c].ret = generate_invoice(View(c)).ret,
                            ![c].snap = View(c),
                            ![c].pending = IF writer = 0 THEN db ELSE wdb,
                            ![c].d1 = db]
    /\ UNCHANGED <<db, writer, wdb, Rest>>

(* the caller has the outcome *)
ConnDone(c) ==
    /\ conn[c].pc = "returned"
    /\ conn' = [conn EXCEPT ![c] = Idle(conn[c].calls)]
    /\ UNCHANGED <<db, writer, wdb, Rest>>

NextConc ==
    \E c \in Conns :
        \/ SaleCall(c)
        \/ SaleCheck(c)
        \/ SaleInsert(c)
        \/ SaleLocked(c)
        \/ SaleUpdate(c)
        \/ SaleCommit(c)
        \/ AdjustCall(c)
        \/ AdjustRead(c)
        \/ AdjustUpdate(c)
        \/ AdjustLocked(c)
        \/ AdjustInsert(c)
        \/ AdjustCommit(c)
        \/ EditCall(c)
        \/ EditRead(c)
        \/ EditUpdate(c)
        \/ EditLocked(c)
        \/ EditInsert(c)
        \/ EditCommit(c)
        \/ UndoCall(c)
        \/ UndoSelect(c)
        \/ UndoRestore(c)
        \/ UndoLocked(c)
        \/ UndoDelete(c)
        \/ UndoCommit(c)
        \/ DeleteCall(c)
        \/ DeleteCount(c)
        \/ DeleteAdjustments(c)
        \/ DeleteLocked(c)
        \/ DeleteRow(c)
        \/ DeleteCommit(c)
        \/ InvoiceCall(c)
        \/ InvoiceSelect(c)
        \/ ConnDone(c)

SpecConc == InitConc /\ [][NextConc]_vars

---------------------------------------------------------------------------
(* Vocabulary of the properties *)

(* the error taxonomy, by the message of the raise *)
InvalidArgument ==
    {ErrNameEmpty, ErrNegative, ErrAdjZero, ErrReason, ErrEmptySale,
     ErrQtyPositive, ErrTotalNegative}
NotFound == {ErrProductNotFound, ErrNoSales}
InsufficientStock == {ErrBelowZero, ErrUnits}
Conflict == {ErrHasSales}

Returned(op) == pc = "returned" /\ req.op = op

(* total qty of the rows (or cart lines) of s that name product p *)
RECURSIVE QtyOf(_, _)
QtyOf(s, p) ==
    IF s = <<>> THEN 0
    ELSE (IF Head(s).product_id = p THEN Head(s).qty ELSE 0) + QtyOf(Tail(s), p)

(* total adjustment_qty of the adjustment rows of product p *)
RECURSIVE AdjustedOf(_, _)
AdjustedOf(s, p) ==
    IF s = <<>> THEN 0
    ELSE (IF Head(s).product_id = p THEN Head(s).adjustment_qty ELSE 0)
         + AdjustedOf(Tail(s), p)

(* everything of the catalog but the quantities *)
SameButQuantity(a, b) ==
    /\ DOMAIN a.products = DOMAIN b.products
    /\ \A p \in DOMAIN a.products :
          [a.products[p] EXCEPT !.quantity = 0] = [b.products[p] EXCEPT !.quantity = 0]
    /\ a.products_seq = b.products_seq

---------------------------------------------------------------------------
(* C1. Non-negative stock: after any sequence of completed add_product,    *)
(* update_product, adjust_stock, record_sale, undo_sale and delete_product *)
(* calls, no product has a quantity below zero.                            *)
C1_NonNegativeStock ==
    \A p \in DOMAIN db.products : db.products[p].quantity >= 0

(* a sale has just taken the last unit of a product *)
C1_Witness ==
    /\ Returned("record_sale") /\ res.err = Ok
    /\ \E p \in DOMAIN db.products :
          db.products[p].quantity = 0 /\ prev.products[p].quantity > 0

(* C2. Accounting identity: at every quiescent point every product's       *)
(* quantity is the sum of its adjustment rows minus the qty of the sale    *)
(* rows that reference it.                                                 *)
C2_AccountingIdentity ==
    pc = "idle" =>
        \A p \in DOMAIN db.products :
            db.products[p].quantity =
                AdjustedOf(db.stock_adjustments, p) - QtyOf(db.sales, p)

(* C3. A record_sale that fails on any line leaves every quantity and the  *)
(* Sale Ledger as they were before the call, lines before the failing one  *)
(* included.                                                                *)
C3_SaleAtomicity ==
    Returned("record_sale")
        /\ res.err \in {ErrQtyPositive, ErrTotalNegative, ErrProductNotFound, ErrUnits}
    => /\ db.products = prev.products
       /\ db.sales = prev.sales

(* line 2 fails for lack of stock after line 1 passed every check *)
C3_Witness ==
    /\ Returned("record_sale") /\ res.err = ErrUnits /\ res.line = 2
    /\ req.items[1].product_id # req.items[2].product_id

---------------------------------------------------------------------------
(* round(qty x (unitPrice - perUnitDiscount), 2) of a cart line, the       *)
(* discount taken at two decimals                                          *)
LineTotal(item) == Round2(item.qty * (item.unit_price - Round2(item.discount)))

(* the Sale Ledger row of a cart line, with the given discount column *)
SaleRow(invoice, item, discount, sold_by) ==
    [invoice |-> invoice, product_id |-> item.product_id, qty |-> item.qty,
     unit_price |-> item.unit_price, unit_cost |-> item.unit_cost,
     discount |-> discount, total |-> LineTotal(item), sold_by |-> sold_by]

(* what a successful record_sale leaves but the appended rows: each         *)
(* quantity down by the qty of the lines naming it, nothing else touched    *)
SaleStockEffect ==
    /\ SameButQuantity(db, prev)
    /\ \A p \in DOMAIN prev.products :
          db.products[p].quantity = prev.products[p].quantity - QtyOf(req.items, p)
    /\ db.stock_adjustments = prev.stock_adjustments

(* C5 as stated: a successful record_sale appends one row per line, in     *)
(* order, carrying the invoice, product, qty, unit price, unit cost, the   *)
(* per-unit discount as given, the total and the actor; quantities go down *)
(* by the qty sold; no adjustment row, no other product changes.           *)
C5_SaleEffectAsStated ==
    Returned("record_sale") /\ res.err = Ok
    => /\ db.sales = prev.sales \o
            [i \in 1..Len(req.items) |->
                SaleRow(req.invoice, req.items[i], req.items[i].discount, req.sold_by)]
       /\ SaleStockEffect

(* C5 amended: the same, the discount column holding the given per-unit    *)
(* discount rounded to two decimals.                                       *)
C5_SaleEffect ==
    Returned("record_sale") /\ res.err = Ok
    => /\ db.sales = prev.sales \o
            [i \in 1..Len(req.items) |->
                SaleRow(req.invoice, req.items[i], Round2(req.items[i].discount),
                        req.sold_by)]
       /\ SaleStockEffect

(* a two-line sale went through, one line with a discount of 0.007 *)
C5_Witness ==
    /\ Returned("record_sale") /\ res.err = Ok
    /\ Len(req.items) = 2
    /\ \E i \in 1..2 : req.items[i].discount % 10 # 0

(* the lines of a cart that fail no check but, possibly, the stock check *)
OtherwiseValid(d, items) ==
    /\ items # <<>>
    /\ \A i \in 1..Len(items) :
          /\ items[i].qty > 0
          /\ LineTotal(items[i]) >= 0
          /\ items[i].product_id \in DOMAIN d.products

(* C6. Sequential dependent validation: a cart of otherwise valid lines    *)
(* succeeds exactly when, for every product, the qty summed over its lines *)
(* is at most the quantity the product had before the call.                *)
C6_CumulativeStock ==
    Returned("record_sale") /\ OtherwiseValid(prev, req.items)
    => (res.err = Ok
        <=> \A p \in DOMAIN prev.products :
                QtyOf(req.items, p) <= prev.products[p].quantity)

(* two lines on one product, each within the stock, together above it: the *)
(* second is refused                                                       *)
C6_Witness ==
    /\ Returned("record_sale") /\ res.err = ErrUnits /\ res.line = 2
    /\ req.items[1].product_id = req.items[2].product_id
    /\ \A i \in 1..2 : req.items[i].qty <= prev.products[req.items[i].product_id].quantity

(* C7 as stated: for an existing product of quantity q, Adjust(-q-1,       *)
(* "test") fails with InsufficientStock and leaves q, and Adjust(-q,       *)
(* "test") succeeds and yields quantity 0.                                 *)
C7_AdjustBoundaryAsStated ==
    Returned("adjust_stock") /\ req.reason = <<"test">>
        /\ req.product_id \in DOMAIN prev.products
    => LET q == prev.products[req.product_id].quantity
       IN /\ req.adj_qty = -q - 1 => res.err \in InsufficientStock /\ db = prev
          /\ req.adj_qty = -q => res.err = Ok /\ db.products[req.product_id].quantity = 0

(* C7 amended: Adjust(-q-1, "test") fails with InsufficientStock and       *)
(* leaves q; Adjust(-q, "test") succeeds and yields 0 when q > 0, and when *)
(* q = 0 it is a zero adjustment, refused as InvalidArgument, quantity     *)
(* still 0.                                                                *)
C7_AdjustBoundary ==
    Returned("adjust_stock") /\ req.reason = <<"test">>
        /\ req.product_id \in DOMAIN prev.products
    => LET q == prev.products[req.product_id].quantity
       IN /\ req.adj_qty = -q - 1 => res.err \in InsufficientStock /\ db = prev
          /\ req.adj_qty = -q /\ q > 0
                => res.err = Ok /\ db.products[req.product_id].quantity = 0
          /\ req.adj_qty = -q /\ q = 0 => res.err \in InvalidArgument /\ db = prev

(* a stocked product was adjusted down to exactly zero *)
C7_Witness ==
    /\ Returned("adjust_stock") /\ req.reason = <<"test">> /\ res.err = Ok
    /\ req.product_id \in DOMAIN prev.products
    /\ prev.products[req.product_id].quantity > 0
    /\ req.adj_qty = -prev.products[req.product_id].quantity

(* what a successful adjust_stock leaves but the reason column: quantity   *)
(* up by the delta, one more adjustment row, nothing else touched          *)
AdjustEffect(reason) ==
    /\ req.product_id \in DOMAIN prev.products
    /\ db.products = [prev.products EXCEPT ![req.product_id].quantity = @ + req.adj_qty]
    /\ db.products_seq = prev.products_seq
    /\ db.stock_adjustments = Append(prev.stock_adjustments,
            [product_id |-> req.product_id, adjustment_qty |-> req.adj_qty,
             reason |-> reason, adjusted_by |-> req.adjusted_by])
    /\ db.sales = prev.sales

(* C8 as stated: a successful adjust_stock sets quantity to previous plus  *)
(* delta and appends one adjustment row with that product, delta, reason   *)
(* and actor; sales, other products, earlier adjustment rows unchanged.    *)
C8_AdjustEffectAsStated ==
    Returned("adjust_stock") /\ res.err = Ok => AdjustEffect(req.reason)

(* C8 amended: the same, the row holding the reason with its leading and   *)
(* trailing whitespace removed.                                            *)
C8_AdjustEffect ==
    Returned("adjust_stock") /\ res.err = Ok
    => AdjustEffect(Strip(req.reason))

(* an adjustment with a padded reason was appended after an earlier row *)
C8_Witness ==
    /\ Returned("adjust_stock") /\ res.err = Ok
    /\ prev.stock_adjustments # <<>>
    /\ req.reason = <<" ", "test", " ">>

IsBlank(s) == \A i \in 1..Len(s) : s[i] = " "

(* C9. adjust_stock fails with InvalidArgument when delta is 0 or the      *)
(* reason is empty or whitespace, else with NotFound when the product does *)
(* not resolve, else with InsufficientStock when quantity + delta < 0; a   *)
(* failing call changes no quantity and appends no adjustment row.         *)
C9_AdjustRejection ==
    Returned("adjust_stock")
    => LET bad == req.adj_qty = 0 \/ IsBlank(req.reason)
           found == req.product_id \in DOMAIN prev.products
       IN /\ bad => res.err \in InvalidArgument
          /\ ~bad /\ ~found => res.err \in NotFound
          /\ ~bad /\ found /\ prev.products[req.product_id].quantity + req.adj_qty < 0
                => res.err \in InsufficientStock
          /\ res.err # Ok => db = prev

(* a whitespace-only reason was refused *)
C9_Witness ==
    /\ Returned("adjust_stock") /\ res.err = ErrReason
    /\ req.reason = <<" ">> /\ req.adj_qty # 0

(* C10. A successful undo_sale raises each product's quantity by the qty   *)
(* of the invoice's rows that reference it, deletes exactly the rows of    *)
(* that invoice, appends nothing, in one atomic unit.                      *)
C10_UndoEffect ==
    Returned("undo_sale") /\ res.err = Ok
    => LET mine == SelectSeq(prev.sales, LAMBDA r : r.invoice = req.invoice)
       IN /\ SameButQuantity(db, prev)
          /\ \A p \in DOMAIN prev.products :
                db.products[p].quantity = prev.products[p].quantity + QtyOf(mine, p)
          /\ db.sales = SelectSeq(prev.sales, LAMBDA r : r.invoice # req.invoice)
          /\ db.stock_adjustments = prev.stock_adjustments

(* an invoice was undone while a row of another invoice stayed *)
C10_Witness ==
    /\ Returned("undo_sale") /\ res.err = Ok
    /\ db.sales # <<>>

(* both connections are in, or back from, a sale of one unit of product   *)
(* p, each called while the committed quantity of p was 1                  *)
LastUnitRace(p) ==
    \A c \in Conns :
        /\ conn[c].pc # "idle"
        /\ conn[c].op = "record_sale"
        /\ conn[c].items = <<Item(p, 1, PlainPrice)>>
        /\ p \in DOMAIN conn[c].d0.products
        /\ conn[c].d0.products[p].quantity = 1

(* C4. Two record_sale calls on separate connections, each for 1 unit of a *)
(* product whose quantity is 1, interleaved in any order: exactly one      *)
(* succeeds, the other fails with insufficient stock, the final quantity   *)
(* is 0, and the quantity is never negative.  (A call that gives up on the *)
(* write lock is left out: the claim is about two calls that ran.)         *)
C4_LastUnitRace ==
    \A p \in DOMAIN db.products :
        LastUnitRace(p)
        => /\ db.products[p].quantity >= 0
           /\ (\A c \in Conns : conn[c].pc = "returned" /\ conn[c].err # ErrLocked)
              => /\ \E c \in Conns :
                      /\ conn[c].err = Ok
                      /\ \A o \in Conns \ {c} : conn[o].err \in InsufficientStock
                 /\ db.products[p].quantity = 0

---------------------------------------------------------------------------
(* the call in req is undo_sale(invoice), issued right after a successful   *)
(* record_sale(invoice, items) *)
UndoAfterSale == Returned("undo_sale") /\ hist.op = "record_sale"

(* the quantities and the Sale Ledger are those of the store b *)
SameStockAndSales(b) ==
    /\ DOMAIN db.products = DOMAIN b.products
    /\ \A p \in DOMAIN b.products : db.products[p].quantity = b.products[p].quantity
    /\ db.sales = b.sales

(* C11 as stated: if record_sale(invoice, items) succeeds and undo_sale of *)
(* that invoice follows with no operation in between, undo_sale succeeds   *)
(* and every quantity and the whole Sale Ledger are what they were before  *)
(* the record_sale.                                                        *)
C11_UndoRoundTripAsStated ==
    UndoAfterSale => res.err = Ok /\ SameStockAndSales(hist.before)

(* C11 amended: the same, for a record_sale under an invoice id that no    *)
(* Sale Ledger row carried before it.                                      *)
C11_UndoRoundTrip ==
    UndoAfterSale /\ (\A i \in 1..Len(hist.before.sales) :
                          hist.before.sales[i].invoice # req.invoice)
    => res.err = Ok /\ SameStockAndSales(hist.before)

(* a two-line sale under a fresh invoice id was reversed                    *)
C11_Witness ==
    /\ UndoAfterSale /\ res.err = Ok
    /\ \A i \in 1..Len(hist.before.sales) : hist.before.sales[i].invoice # req.invoice
    /\ Len(prev.sales) = Len(hist.before.sales) + 2

(* C12. undo_sale on an invoice id with no Sale Ledger rows fails with     *)
(* NotFound and changes nothing; in particular a second undo_sale of an    *)
(* invoice, right after the first succeeded, fails with NotFound and       *)
(* credits no stock again.                                                 *)
C12_UndoIdempotent ==
    /\ Returned("undo_sale")
         /\ (\A i \in 1..Len(prev.sales) : prev.sales[i].invoice # req.invoice)
       => res.err \in NotFound /\ db = prev
    /\ Returned("undo_sale") /\ hist.op = "undo_sale"
       => res.err \in NotFound /\ db = prev

(* the second undo_sale of an invoice whose first reversal had given stock *)
(* back was refused                                                        *)
C12_Witness ==
    /\ Returned("undo_sale") /\ hist.op = "undo_sale" /\ res.err = ErrNoSales
    /\ \E p \in DOMAIN db.products :
          /\ p \in DOMAIN hist.before.products
          /\ db.products[p].quantity > hist.before.products[p].quantity

(* C14. delete_product on an existing product succeeds exactly when no     *)
(* Sale Ledger row references it; on success the product and every         *)
(* adjustment row of it are removed together, nothing else; when refused   *)
(* (Conflict) the product, its adjustment rows and its sale rows are       *)
(* unchanged.                                                              *)
C14_DeletionGuard ==
    Returned("delete_product") /\ req.product_id \in DOMAIN prev.products
    => LET referenced == \E i \in 1..Len(prev.sales) :
                            prev.sales[i].product_id = req.product_id
       IN /\ res.err = Ok <=> ~referenced
          /\ res.err = Ok =>
                /\ db.products = [p \in DOMAIN prev.products \ {req.product_id} |->
                                      prev.products[p]]
                /\ db.stock_adjustments =
                      SelectSeq(prev.stock_adjustments,
                                LAMBDA r : r.product_id # req.product_id)
                /\ db.sales = prev.sales
          /\ referenced => res.err \in Conflict /\ db = prev

(* a product with an adjustment row and no sale was deleted, the           *)
(* adjustment row of another product staying                               *)
C14_Witness ==
    /\ Returned("delete_product") /\ res.err = Ok
    /\ Len(db.stock_adjustments) < Len(prev.stock_adjustments)
    /\ db.stock_adjustments # <<>>

---------------------------------------------------------------------------
(* the identifiers INV-251104-NNN, NNN = 001, 002, ... *)
TodaySequence ==
    <<"INV-251104-001", "INV-251104-002", "INV-251104-003", "INV-251104-004",
      "INV-251104-005">>

(* the distinct invoice ids of the Sale Ledger s that begin with prefix *)
InvoicesWithPrefix(s, prefix) ==
    {inv \in {s[i].invoice : i \in 1..Len(s)} : LikePrefix(inv, prefix)}

(* C15. generate_invoice returns INV-<YYMMDD of today>-NNN, NNN the        *)
(* 3-digit zero-padded n+1, n the number of distinct invoice ids of the    *)
(* Sale Ledger that start with INV-<YYMMDD of today>-; rows sharing an id  *)
(* count once; with 2 distinct invoices of today it returns ...-003.       *)
C15_InvoiceSequencing ==
    Returned("generate_invoice")
    => LET n == Cardinality(InvoicesWithPrefix(prev.sales, "INV-251104-"))
       IN /\ n < Len(TodaySequence) => res.ret = TodaySequence[n + 1]
          /\ res.err = Ok
          /\ db = prev

(* two distinct invoices of today are in the ledger and ...-003 came back  *)
C15_Witness ==
    /\ Returned("generate_invoice") /\ res.ret = "INV-251104-003"
    /\ Len(prev.sales) = 2

(* C16. When every record_sale uses the identifier generate_invoice just   *)
(* returned, with undo_sale calls in between, the identifier that          *)
(* generate_invoice returns is the invoice id of no row of the Sale        *)
(* Ledger.                                                                 *)
C16_UniqueInvoice ==
    Returned("generate_invoice")
    => \A i \in 1..Len(db.sales) : db.sales[i].invoice # res.ret

---------------------------------------------------------------------------
(* the change the call in req made to the quantity of product p of db: a   *)
(* product created by the call starts from nothing                         *)
QuantityChange(p) ==
    db.products[p].quantity
        - (IF p \in DOMAIN prev.products THEN prev.products[p].quantity ELSE 0)

(* the call appended one adjustment row, of product p and quantity n *)
AppendedAdjustment(p, n) ==
    /\ Len(db.stock_adjustments) = Len(prev.stock_adjustments) + 1
    /\ SubSeq(db.stock_adjustments, 1, Len(prev.stock_adjustments)) = prev.stock_adjustments
    /\ db.stock_adjustments[Len(db.stock_adjustments)].product_id = p
    /\ db.stock_adjustments[Len(db.stock_adjustments)].adjustment_qty = n

(* C17 as stated: every operation that changes a product's quantity, but   *)
(* for the decrement inside record_sale, appends in the same atomic unit   *)
(* an adjustment row of that product whose adjustment_qty is the change.   *)
C17_AuditTrailAsStated ==
    pc = "returned" /\ req.op # "record_sale"
    => \A p \in DOMAIN db.products :
          QuantityChange(p) # 0 => AppendedAdjustment(p, QuantityChange(p))

(* C17 amended: the same, but for the decrement inside record_sale and the *)
(* increment by which undo_sale gives the stock of an invoice back.        *)
C17_AuditTrail ==
    pc = "returned" /\ req.op \notin {"record_sale", "undo_sale"}
    => \A p \in DOMAIN db.products :
          QuantityChange(p) # 0 => AppendedAdjustment(p, QuantityChange(p))

(* a catalog edit lowered a quantity, after an earlier adjustment row *)
C17_Witness ==
    /\ Returned("update_product") /\ res.err = Ok
    /\ db.products[req.product_id].quantity < prev.products[req.product_id].quantity
    /\ prev.stock_adjustments # <<>>

(* C20. A successful update_product with new quantity n on a product of    *)
(* quantity q sets the quantity to n; if n # q it appends exactly one      *)
(* adjustment row with adjustment_qty = n - q, a reason that contains n,   *)
(* and the editing actor; if n = q it appends no adjustment row.           *)
C20_CatalogEdit ==
    Returned("update_product") /\ res.err = Ok
    => LET q == prev.products[req.product_id].quantity
           n == req.new_quantity
           row == db.stock_adjustments[Len(db.stock_adjustments)]
       IN /\ db.products[req.product_id].quantity = n
          /\ n # q =>
                /\ AppendedAdjustment(req.product_id, n - q)
                /\ \E i \in 1..Len(row.reason) : row.reason[i] = ToString(n)
                /\ row.adjusted_by = req.adjusted_by
          /\ n = q => db.stock_adjustments = prev.stock_adjustments

(* an edit raised the quantity of a product from 1 to 2 *)
C20_Witness ==
    /\ Returned("update_product") /\ res.err = Ok
    /\ prev.products[req.product_id].quantity = 1
    /\ req.new_quantity = 2

---------------------------------------------------------------------------
(* the rows of the Adjustment Ledger before the call are the first rows of *)
(* the ledger after it, field by field                                     *)
AdjustmentsKept ==
    /\ Len(db.stock_adjustments) >= Len(prev.stock_adjustments)
    /\ SubSeq(db.stock_adjustments, 1, Len(prev.stock_adjustments)) = prev.stock_adjustments

(* the call removed the adjustment rows of the product it deleted, which   *)
(* no Sale Ledger row referenced, and no other                             *)
AdjustmentsOfDeletedProductRemoved ==
    /\ req.op = "delete_product" /\ res.err = Ok
    /\ db.stock_adjustments =
          SelectSeq(prev.stock_adjustments, LAMBDA r : r.product_id # req.product_id)
    /\ \A i \in 1..Len(prev.sales) : prev.sales[i].product_id # req.product_id

(* C18 as stated: no operation changes a field of an existing adjustment   *)
(* row, and the only operation that removes one is delete_product of its   *)
(* product, which happens only when no sale row references that product.   *)
C18_AppendOnlyAsStated ==
    pc = "returned" => AdjustmentsKept \/ AdjustmentsOfDeletedProductRemoved

(* C18 amended: the same, but that delete_user sets the actor of the rows  *)
(* of the deleted user to NULL, every other field and every other row      *)
(* staying.                                                                *)
C18_AppendOnly ==
    /\ pc = "returned" /\ req.op # "delete_user"
       => AdjustmentsKept \/ AdjustmentsOfDeletedProductRemoved
    /\ Returned("delete_user")
       => /\ Len(db.stock_adjustments) = Len(prev.stock_adjustments)
          /\ \A i \in 1..Len(prev.stock_adjustments) :
                LET old == prev.stock_adjustments[i]
                    new == db.stock_adjustments[i]
                IN IF res.err = Ok /\ old.adjusted_by = req.user_id
                   THEN new = [old EXCEPT !.adjusted_by = NULL]
                   ELSE new = old

(* a user was deleted whose id an adjustment row carried, next to a row    *)
(* without actor                                                           *)
C18_Witness ==
    /\ Returned("delete_user") /\ res.err = Ok
    /\ Len(prev.stock_adjustments) = 2
    /\ prev.stock_adjustments[1].adjusted_by = NULL
    /\ prev.stock_adjustments[2].adjusted_by = req.user_id

---------------------------------------------------------------------------
(* connection c is back from an undo_sale that no commit of the other      *)
(* connection overlapped, and when it was called a row of its invoice      *)
(* referenced a product that was not in the catalog                        *)
UndoOfOrphan(c) ==
    /\ conn[c].pc = "returned" /\ conn[c].op = "undo_sale" /\ conn[c].seen = 0
    /\ \E i \in 1..Len(conn[c].d0.sales) :
          /\ conn[c].d0.sales[i].invoice = conn[c].invoice
          /\ conn[c].d0.sales[i].product_id \notin DOMAIN conn[c].d0.products

(* C13. If a Sale Ledger row of the invoice references a product id that   *)
(* is no longer in the catalog, undo_sale fails with an error, deletes no  *)
(* Sale Ledger row and changes no quantity, and does not skip the line.    *)
(* (A call that gives up on the write lock is left out.)                   *)
C13_UndoOfOrphan ==
    \A c \in Conns :
        UndoOfOrphan(c) /\ conn[c].err # ErrLocked
        => /\ conn[c].err # Ok
           /\ conn[c].d1.sales = conn[c].d0.sales
           /\ conn[c].d1.products = conn[c].d0.products

---------------------------------------------------------------------------
(* the products the call of connection c reads or writes the quantity of *)
Touched(c) ==
    IF conn[c].op = "record_sale"
    THEN {conn[c].items[i].product_id : i \in 1..Len(conn[c].items)}
    ELSE IF conn[c].op = "undo_sale"
    THEN {conn[c].d0.sales[i].product_id :
            i \in {j \in 1..Len(conn[c].d0.sales) :
                      conn[c].d0.sales[j].invoice = conn[c].invoice}}
    ELSE {conn[c].product_id}

(* the call of connection c, run alone and to completion on the store d *)
Alone(c, d) ==
    IF conn[c].op = "record_sale"
    THEN record_sale(d, conn[c].invoice, conn[c].items, conn[c].sold_by)
    ELSE IF conn[c].op = "undo_sale"
    THEN undo_sale(d, conn[c].invoice)
    ELSE IF conn[c].op = "adjust_stock"
    THEN adjust_stock(d, conn[c].product_id, conn[c].adj_qty, conn[c].reason,
                      conn[c].adjusted_by)
    ELSE IF conn[c].op = "update_product"
    THEN update_product(d, conn[c].product_id, conn[c].name, conn[c].price,
                        conn[c].cost, conn[c].new_quantity, conn[c].adjusted_by)
    ELSE delete_product(d, conn[c].product_id)

(* the stores that the calls of a and b, both succeeding, leave when run   *)
(* one after the other on the store d, in either order                     *)
SerialOutcomes(a, b, d) ==
    LET then(x, y) ==
            IF Alone(x, d).err = Ok /\ Alone(y, Alone(x, d).db).err = Ok
            THEN {Alone(y, Alone(x, d).db).db} ELSE {}
    IN then(a, b) \cup then(b, a)

(* the calls of a and b were issued on the same committed store, both      *)
(* succeeded, and the second commit came while only they were running      *)
Overlapped(a, b) ==
    /\ a # b
    /\ conn[a].pc = "returned" /\ conn[b].pc = "returned"
    /\ conn[a].err = Ok /\ conn[b].err = Ok
    /\ conn[a].d0 = conn[b].d0
    /\ conn[a].seen + conn[b].seen = 1

(* the committed store after the later of the two commits *)
FinalStore(a, b) == IF conn[a].seen = 1 THEN conn[a].d1 ELSE conn[b].d1

(* C19. When adjust_stock or update_product runs concurrently with a       *)
(* record_sale or undo_sale on the same product and both succeed, the      *)
(* final quantity and ledgers are those of one of the two serial orders.   *)
C19_SerializableStock ==
    \A a, b \in Conns :
        /\ Overlapped(a, b)
        /\ conn[a].op \in {"adjust_stock", "update_product"}
        /\ conn[b].op \in {"record_sale", "undo_sale"}
        /\ Touched(a) \cap Touched(b) # {}
        => FinalStore(a, b) \in SerialOutcomes(a, b, conn[a].d0)

---------------------------------------------------------------------------
(* C21. A successful add_product with starting quantity n creates one      *)
(* product with quantity n and, with it, exactly one adjustment row with   *)
(* adjustment_qty = n when n > 0 and no adjustment row when n = 0; a       *)
(* negative starting quantity is rejected and creates nothing.             *)
C21_CatalogAdd ==
    Returned("add_product")
    => /\ res.err = Ok =>
            /\ res.ret \notin DOMAIN prev.products
            /\ DOMAIN db.products = DOMAIN prev.products \cup {res.ret}
            /\ \A p \in DOMAIN prev.products : db.products[p] = prev.products[p]
            /\ db.products[res.ret].quantity = req.quantity
            /\ req.quantity > 0 => AppendedAdjustment(res.ret, req.quantity)
            /\ req.quantity = 0 => db.stock_adjustments = prev.stock_adjustments
            /\ db.sales = prev.sales
       /\ req.quantity < 0 => res.err \in InvalidArgument /\ db = prev

(* a product was added with stock, after an earlier adjustment row *)
C21_Witness ==
    /\ Returned("add_product") /\ res.err = Ok
    /\ req.quantity > 0
    /\ prev.stock_adjustments # <<>>

---------------------------------------------------------------------------
(* C22. Every row of the Sale Ledger, in every reachable state and for any *)
(* line items a caller passes to record_sale, has qty > 0, unit_price >= 0,*)
(* unit_cost >= 0, per-unit discount >= 0 and total >= 0.                  *)
C22_SaleRowsWellFormed ==
    \A i \in 1..Len(db.sales) :
        /\ db.sales[i].qty > 0
        /\ db.sales[i].unit_price >= 0
        /\ db.sales[i].unit_cost >= 0
        /\ db.sales[i].discount >= 0
        /\ db.sales[i].total >= 0

---------------------------------------------------------------------------
(* C23. delete_user of an existing user removes no Sale Ledger row and no  *)
(* Adjustment Ledger row, changes no product quantity, and changes nothing *)
(* in those rows except setting the actor reference to null on exactly the *)
(* rows that referenced the deleted user.                                  *)
C23_NoCascade ==
    Returned("delete_user") /\ req.user_id \in prev.users
    => /\ res.err = Ok
       /\ Len(db.sales) = Len(prev.sales)
       /\ \A i \in 1..Len(prev.sales) :
             db.sales[i] = IF prev.sales[i].sold_by = req.user_id
                           THEN [prev.sales[i] EXCEPT !.sold_by = NULL]
                           ELSE prev.sales[i]
       /\ Len(db.stock_adjustments) = Len(prev.stock_adjustments)
       /\ \A i \in 1..Len(prev.stock_adjustments) :
             db.stock_adjustments[i] =
                 IF prev.stock_adjustments[i].adjusted_by = req.user_id
                 THEN [prev.stock_adjustments[i] EXCEPT !.adjusted_by = NULL]
                 ELSE prev.stock_adjustments[i]
       /\ db.products = prev.products
       /\ db.users = prev.users \ {req.user_id}

(* a user was deleted who had sold and adjusted stock, while a sale of the *)
(* other user was in the ledger                                            *)
C23_Witness ==
    /\ Returned("delete_user") /\ res.err = Ok
    /\ \E i \in 1..Len(prev.sales) : prev.sales[i].sold_by = req.user_id
    /\ \E i \in 1..Len(prev.sales) : prev.sales[i].sold_by \notin {NULL, req.user_id}
    /\ \E i \in 1..Len(prev.stock_adjustments) :
          prev.stock_adjustments[i].adjusted_by = req.user_id

---------------------------------------------------------------------------
(* unit_price, unit_cost, discount and total of a Sale Ledger row *)
Amounts(row) == <<row.unit_price, row.unit_cost, row.discount, row.total>>

(* the rows the Sale Ledger had before the call are still its first rows,  *)
(* with the amounts they had                                                *)
AmountsKept ==
    /\ Len(db.sales) >= Len(prev.sales)
    /\ \A i \in 1..Len(prev.sales) : Amounts(db.sales[i]) = Amounts(prev.sales[i])

(* the rows a successful record_sale appended carry the unit price and the *)
(* unit cost of their cart lines, the given discount column and the line   *)
(* total                                                                   *)
AmountsOfTheCart(discount(_)) ==
    Returned("record_sale") /\ res.err = Ok
    => /\ Len(db.sales) = Len(prev.sales) + Len(req.items)
       /\ \A i \in 1..Len(req.items) :
             Amounts(db.sales[Len(prev.sales) + i]) =
                <<req.items[i].unit_price, req.items[i].unit_cost,
                  discount(req.items[i]), LineTotal(req.items[i])>>

(* no call but undo_sale, which removes the rows of its invoice and leaves *)
(* the others, changes the amounts of a row                                *)
AmountsStable ==
    /\ pc = "returned" /\ req.op # "undo_sale" => AmountsKept
    /\ Returned("undo_sale")
       => \/ db.sales = prev.sales
          \/ db.sales = SelectSeq(prev.sales, LAMBDA r : r.invoice # req.invoice)

(* C24 as stated: the unit_cost, unit_price, discount and total of a Sale  *)
(* Ledger row are the values passed to record_sale, not re-read from the   *)
(* product, and no later operation but the deletion by undo_sale changes   *)
(* them; update_product changing price or cost leaves every row unchanged. *)
C24_CostSnapshotAsStated ==
    /\ AmountsOfTheCart(LAMBDA item : item.discount)
    /\ AmountsStable

(* C24 amended: the same, the discount column holding the passed per-unit  *)
(* discount rounded to two decimals and the total being the line total     *)
(* computed from the passed values.                                        *)
C24_CostSnapshot ==
    /\ AmountsOfTheCart(LAMBDA item : Round2(item.discount))
    /\ AmountsStable

(* an edit changed the price and the cost of a product that had been sold  *)
(* at another price and cost                                               *)
C24_Witness ==
    /\ Returned("update_product") /\ res.err = Ok
    /\ \E i \in 1..Len(prev.sales) :
          /\ prev.sales[i].product_id = req.product_id
          /\ prev.sales[i].unit_price # req.price
          /\ prev.sales[i].unit_cost # req.cost
          /\ prev.sales[i].unit_cost # prev.products[req.product_id].cost

---------------------------------------------------------------------------
(* sum(totals) *)
RECURSIVE SumSeq(_)
SumSeq(s) == IF s = <<>> THEN 0 ELSE Head(s) + SumSeq(Tail(s))

(* the sum of total(item) over the lines of a cart *)
SumOver(items, total(_)) == SumSeq([i \in 1..Len(items) |-> total(items[i])])

(* round(qty x (unitPrice - perUnitDiscount), 2), the discount as passed *)
LineTotalAsPassed(item) == Round2(item.qty * (item.unit_price - item.discount))

(* C25 as stated: a successful record_sale returns the sum of the line     *)
(* totals, each round(qty x (unitPrice - perUnitDiscount), 2) computed     *)
(* from the per-unit discount as passed in and rounded on its own before   *)
(* the sum (amounts in thousandths of a currency unit).                    *)
C25_PerLineRoundingAsStated ==
    Returned("record_sale") /\ res.err = Ok
    => res.ret = SumOver(req.items, LineTotalAsPassed)

(* C25 amended: the same, each line total computed from the per-unit       *)
(* discount rounded to two decimals.                                       *)
C25_PerLineRounding ==
    Returned("record_sale") /\ res.err = Ok
    => res.ret = SumOver(req.items, LineTotal)

(* a sale of two lines, each of a total that is no whole cent before       *)
(* rounding, so that the rounded sum of the two differs from the sum of    *)
(* the two rounded                                                         *)
C25_Witness ==
    /\ Returned("record_sale") /\ res.err = Ok
    /\ Len(req.items) = 2
    /\ LET raw(i) == req.items[i].qty
                       * (req.items[i].unit_price - Round2(req.items[i].discount))
       IN /\ raw(1) % 10 # 0 /\ raw(2) % 10 # 0
          /\ Round2(raw(1) + raw(2)) # res.ret

---------------------------------------------------------------------------
(* the first check line i of the cart fails on the store d, the lines      *)
(* before it having been applied: qty > 0, then line total >= 0, then the  *)
(* product exists, then the stock left suffices                            *)
FirstFailingCheck(d, items, i) ==
    LET item == items[i]
        sold == QtyOf(SubSeq(items, 1, i - 1), item.product_id)
    IN IF item.qty <= 0 THEN ErrQtyPositive
       ELSE IF LineTotal(item) < 0 THEN ErrTotalNegative
       ELSE IF item.product_id \notin DOMAIN d.products THEN ErrProductNotFound
       ELSE IF item.qty > d.products[item.product_id].quantity - sold THEN ErrUnits
       ELSE Ok

(* C27. record_sale rejects an empty line-item sequence with               *)
(* InvalidArgument, the store untouched; otherwise it processes the lines  *)
(* in order and, per line, checks qty > 0, then line total >= 0, then that *)
(* the product exists, then that the stock suffices: the error reported is *)
(* that of the first check that fails in this order, on the first line     *)
(* that fails one.                                                         *)
C27_ErrorPrecedence ==
    Returned("record_sale")
    => LET failing == {i \in 1..Len(req.items) :
                          FirstFailingCheck(prev, req.items, i) # Ok}
       IN /\ req.items = <<>> => res.err = ErrEmptySale /\ db = prev
          /\ ErrEmptySale \in InvalidArgument
          /\ req.items # <<>> /\ failing = {} => res.err = Ok
          /\ failing # {} =>
                LET first == CHOOSE i \in failing : \A j \in failing : i <= j
                IN /\ res.line = first
                   /\ res.err = FirstFailingCheck(prev, req.items, first)

(* the second line of a cart has a negative total and asks for a unit of a *)
(* product that the first line has sold out: the total is reported         *)
C27_Witness ==
    /\ Returned("record_sale") /\ res.err = ErrTotalNegative /\ res.line = 2
    /\ req.items[1].product_id = req.items[2].product_id
    /\ req.items[1].qty = prev.products[req.items[1].product_id].quantity

---------------------------------------------------------------------------
(* connections a and b are back from undo_sale of the same invoice: both   *)
(* were called on the same committed store, both fetched the rows of the   *)
(* invoice, and one commit came while they ran                             *)
DoubleUndo(a, b) ==
    /\ a # b
    /\ conn[a].pc = "returned" /\ conn[b].pc = "returned"
    /\ conn[a].op = "undo_sale" /\ conn[b].op = "undo_sale"
    /\ conn[a].invoice = conn[b].invoice
    /\ conn[a].d0 = conn[b].d0
    /\ conn[a].sales # <<>> /\ conn[b].sales # <<>>
    /\ conn[a].seen + conn[b].seen = 1

(* C28. When two undo_sale calls for the same invoice run concurrently on  *)
(* separate connections and both read the rows of the invoice before       *)
(* either writes, at most one of them commits: the stock of each product   *)
(* is credited exactly once, the rows of the invoice are gone, and the     *)
(* other call fails with its writes rolled back.                           *)
C28_DoubleUndo ==
    \A a, b \in Conns :
        DoubleUndo(a, b)
        => LET d == conn[a].d0
               mine == SelectSeq(d.sales, LAMBDA r : r.invoice = conn[a].invoice)
           IN /\ \/ conn[a].err = Ok /\ conn[b].err \in {ErrDeletionFailed, ErrLocked}
                 \/ conn[b].err = Ok /\ conn[a].err \in {ErrDeletionFailed, ErrLocked}
              /\ db.sales = SelectSeq(d.sales, LAMBDA r : r.invoice # conn[a].invoice)
              /\ db.products =
                    [p \in DOMAIN d.products |->
                        [d.products[p] EXCEPT !.quantity = @ + QtyOf(mine, p)]]
              /\ db.stock_adjustments = d.stock_adjustments

(* the second call took the write lock after the first had committed,      *)
(* credited the stock again, found no row to delete and was rolled back    *)
C28_Witness ==
    \E a, b \in Conns :
        /\ DoubleUndo(a, b)
        /\ conn[a].err = Ok
        /\ conn[b].err = ErrDeletionFailed

---------------------------------------------------------------------------
(* C29. In every reachable state, those reached when delete_product runs   *)
(* concurrently with record_sale or adjust_stock on the same product        *)
(* included, every Sale Ledger row and every Adjustment Ledger row          *)
(* references a product that exists in the catalog.                         *)
C29_NoOrphans ==
    /\ \A i \in 1..Len(db.sales) : db.sales[i].product_id \in DOMAIN db.products
    /\ \A i \in 1..Len(db.stock_adjustments) :
          db.stock_adjustments[i].product_id \in DOMAIN db.products

---------------------------------------------------------------------------
(* the quantities of the products of d, each changed by delta[p] *)
QuantitiesMoved(d, e, delta(_)) ==
    /\ DOMAIN e.products = DOMAIN d.products
    /\ \A p \in DOMAIN d.products :
          e.products[p] = [d.products[p] EXCEPT !.quantity = @ + delta(p)]

(* the step takes the committed store from db to db' by all the writes of  *)
(* the call of connection c, and by nothing else                           *)
WholeEffect(c) ==
    LET k == conn[c]
    IN  CASE k.op = "record_sale" ->
               /\ db'.sales = db.sales \o
                     [i \in 1..Len(k.items) |->
                         SaleRow(k.invoice, k.items[i], Round2(k.items[i].discount), k.sold_by)]
               /\ QuantitiesMoved(db, db', LAMBDA p : -QtyOf(k.items, p))
               /\ db'.stock_adjustments = db.stock_adjustments
          [] k.op = "adjust_stock" ->
               /\ db'.stock_adjustments = Append(db.stock_adjustments,
                     [product_id |-> k.product_id, adjustment_qty |-> k.adj_qty,
                      reason |-> Strip(k.reason), adjusted_by |-> k.adjusted_by])
               /\ QuantitiesMoved(db, db',
                     LAMBDA p : IF p = k.product_id
                                THEN k.new_qty - db.products[p].quantity ELSE 0)
               /\ db'.sales = db.sales
          [] k.op = "update_product" ->
               /\ db'.stock_adjustments =
                     IF k.adjustment_qty = 0 THEN db.stock_adjustments
                     ELSE Append(db.stock_adjustments,
                            [product_id |-> k.product_id,
                             adjustment_qty |-> k.adjustment_qty,
                             reason |-> ManualEditReason(k.new_quantity),
                             adjusted_by |-> k.adjusted_by])
               /\ DOMAIN db'.products = DOMAIN db.products
               /\ \A p \in DOMAIN db.products :
                     db'.products[p] =
                        IF p = k.product_id
                        THEN [name |-> Strip(k.name), quantity |-> k.new_quantity,
                              price |-> k.price, cost |-> k.cost]
                        ELSE db.products[p]
               /\ db'.sales = db.sales
          [] k.op = "undo_sale" ->
               /\ db'.sales = SelectSeq(db.sales, LAMBDA r : r.invoice # k.invoice)
               /\ QuantitiesMoved(db, db', LAMBDA p : QtyOf(k.sales, p))
               /\ db'.stock_adjustments = db.stock_adjustments
          [] k.op = "delete_product" ->
               /\ db'.products = [p \in DOMAIN db.products \ {k.product_id} |->
                                      db.products[p]]
               /\ db'.stock_adjustments =
                     SelectSeq(db.stock_adjustments,
                               LAMBDA r : r.product_id # k.product_id)
               /\ db'.sales = db.sales
          [] OTHER -> FALSE

(* C26. A reader on another connection, running concurrently with          *)
(* record_sale, adjust_stock, update_product, undo_sale or delete_product, *)
(* reads the committed store, and every step that changes the committed    *)
(* store carries all the writes of one call: the reader sees none or all   *)
(* of them, never sale rows without their stock decrement, a changed       *)
(* quantity without its adjustment row, or restored stock with the sale    *)
(* rows still present.                                                     *)
C26_NoPartialState ==
    [][ /\ db' # db => \E c \in Conns : writer = c /\ WholeEffect(c)
        /\ \A c \in Conns :
              conn[c].pc = "gen_select" /\ conn'[c].pc = "returned"
              => conn'[c].snap = db /\ db' = db
      ]_vars

(* a reader ran while the other connection had inserted the row of a sale  *)
(* and had not committed: it saw neither the row nor the decrement         *)
C26_Witness ==
    \E c \in Conns :
        /\ conn[c].pc = "returned" /\ conn[c].op = "generate_invoice"
        /\ Len(conn[c].pending.sales) > Len(conn[c].snap.sales)
        /\ conn[c].pending.products = conn[c].snap.products

---------------------------------------------------------------------------
(* connection c is back from generate_invoice *)
Suggested(c) == conn[c].pc = "returned" /\ conn[c].op = "generate_invoice"

(* C30. generate_invoice changes no product, Sale Ledger or Adjustment      *)
(* Ledger state and reserves nothing: the committed store after a call that *)
(* no commit overlapped is the store before it, and two calls, by two       *)
(* callers too, return the same identifier as long as the Sale Ledger holds *)
(* the same distinct identifiers with the prefix of today, that is until a  *)
(* sale under a new one is committed or one of them is undone.              *)
C30_AdvisoryInvoice ==
    /\ \A c \in Conns :
          Suggested(c)
          => /\ conn[c].err = Ok
             /\ writer # c
             /\ conn[c].seen = 0 => conn[c].d1 = conn[c].d0 /\ conn[c].snap = conn[c].d0
    /\ \A a, b \in Conns :
          Suggested(a) /\ Suggested(b)
             /\ InvoicesWithPrefix(conn[a].snap.sales, "INV-" \o Today \o "-")
                  = InvoicesWithPrefix(conn[b].snap.sales, "INV-" \o Today \o "-")
          => conn[a].ret = conn[b].ret

(* after the sale of INV-251104-001 both callers were given INV-251104-002 *)
C30_Witness ==
    /\ \A c \in Conns : Suggested(c) /\ conn[c].ret = "INV-251104-002"
    /\ db.sales # <<>>

============================================================================
